---- MODULE Spec2Model ----
(***************************************************************************)
(* Model of the data transformation and aggregation pipeline of the       *)
(* benchmark-results explorer: flattenDatasetResults, categorizeTest,     *)
(* groupByCategory, buildPivotTable (features/transform.ts),              *)
(* calculateDeltas, filterDeltasByThreshold, sortDeltas and               *)
(* calculateCategoryMean (features/discover.ts), candidateSummaryToCSV    *)
(* (features/csv.ts), the categoryStats and benchmarkData computations of *)
(* charts/CategoryDashboard.tsx, and the loaded sources and selection of  *)
(* pages/Home.tsx with the ControlsPanel handlers.                        *)
(*                                                                         *)
(* Conventions.                                                            *)
(*  - A JSON value is a record tagged by t: "null", "number" (n),         *)
(*    "string" (s), "boolean" (b), "array" (a, a sequence of values),     *)
(*    "object" (o, a sequence of <<key, value>> pairs in insertion        *)
(*    order).  Undefined is the result of reading a property that is not  *)
(*    there.                                                              *)
(*  - A function that can raise returns [threw |-> BOOLEAN, ...].         *)
(*  - Accuracies are integers (hundredths); a mean is the exact rational  *)
(*    [num, den] in lowest terms, so floating-point rounding is left out. *)
(***************************************************************************)
EXTENDS Integers, Sequences, FiniteSets, TLC

VARIABLES
    pc,             \* "input", or the name of the operation that has been applied
    rawData,        \* flattenDatasetResults: the document handed in
    flat,           \* flattenDatasetResults: [threw, results]
    filename,       \* categorizeTest: the string handed in
    subject,        \* categorizeTest: the label returned
    sources,        \* the DataSource list handed to the aggregations
    out,            \* the value computed from sources by the applied operation
    deltas,         \* the DeltaRow list handed to filterDeltasByThreshold and sortDeltas
    arg,            \* the threshold or the sort mode handed in with it, a JSON value
    config,         \* Home: the configuration, once it has been fetched and accepted
    loading,        \* Home: the loading flag
    selectedSourceIds, \* Home: the ids ticked for comparison
    viewMode,       \* Home: the view shown
    loadsStarted,   \* Home: the runs of loadAllLatestResults begun
    loadsFinished,  \* Home: those of them whose Promise.all has resolved
    uploadCount,    \* Home: the files handleFilesUpload has gone through
    dataSchema,     \* Home: the stored schema, a set of shapes; {} for null
    uploads,        \* Home: the calls of handleFilesUpload under way, each with the schema it captured
    expandedCategory \* CategoryDashboard: the expanded category, "" for null

vars == <<pc, rawData, flat, filename, subject, sources, out, deltas, arg, config, loading, selectedSourceIds, viewMode, loadsStarted, loadsFinished, uploadCount, dataSchema, uploads, expandedCategory>>

NoValue == [t |-> "none"]

(***************************************************************************)
(* JSON values                                                             *)
(***************************************************************************)
Undefined == [t |-> "undefined"]
JNull == [t |-> "null"]
JNum(n) == [t |-> "number", n |-> n]
JStr(s) == [t |-> "string", s |-> s]
JBool(b) == [t |-> "boolean", b |-> b]
JArr(s) == [t |-> "array", a |-> s]
JObj(s) == [t |-> "object", o |-> s]

\* typeof x
TypeOf(x) ==
    CASE x.t = "undefined" -> "undefined"
      [] x.t = "number" -> "number"
      [] x.t = "string" -> "string"
      [] x.t = "boolean" -> "boolean"
      [] OTHER -> "object"

\* !!x
Truthy(x) ==
    CASE x.t = "undefined" -> FALSE
      [] x.t = "null" -> FALSE
      [] x.t = "number" -> x.n # 0
      [] x.t = "string" -> x.s # ""
      [] x.t = "boolean" -> x.b
      [] OTHER -> TRUE

\* x === null || x === undefined: reading a property of x raises a TypeError
Nullish(x) == x.t \in {"null", "undefined"}

\* Array.isArray(x)
IsArray(x) == x.t = "array"

\* The value of the last pair with key k in the entry list e (an object literal
\* that repeats a key keeps the last value), Undefined when there is none.
RECURSIVE LookupKey(_, _)
LookupKey(e, k) ==
    IF e = <<>> THEN Undefined
    ELSE IF e[Len(e)][1] = k THEN e[Len(e)][2]
    ELSE LookupKey(SubSeq(e, 1, Len(e) - 1), k)

\* x.k for a property name k that is no array index, "length" or built-in:
\* only a plain object can hold it.  The caller checks Nullish(x) first.
Get(x, k) == IF x.t = "object" THEN LookupKey(x.o, k) ELSE Undefined

\* Object.entries(x) for a truthy x: the own enumerable string-keyed
\* properties, which for an array or a string are its indices.
ObjectEntries(x) ==
    CASE x.t = "object" -> x.o
      [] x.t = "array" -> [i \in 1..Len(x.a) |-> <<ToString(i - 1), x.a[i]>>]
      [] x.t = "string" ->
            [i \in 1..Len(x.s) |-> <<ToString(i - 1), JStr(SubSeq(x.s, i, i))>>]
      [] OTHER -> <<>>

(***************************************************************************)
(* Strings                                                                 *)
(***************************************************************************)
StartsWith(s, p) == Len(s) >= Len(p) /\ SubSeq(s, 1, Len(p)) = p
EndsWith(s, p) == Len(s) >= Len(p) /\ SubSeq(s, Len(s) - Len(p) + 1, Len(s)) = p
DropLast(s, n) == SubSeq(s, 1, Len(s) - n)

\* s.includes(k)
Includes(s, k) ==
    \E i \in 1..(Len(s) - Len(k) + 1) : SubSeq(s, i, i + Len(k) - 1) = k

\* The positions of "/" in s
SlashPositions(s) == {i \in 1..Len(s) : SubSeq(s, i, i) = "/"}

Max(S) == CHOOSE x \in S : \A y \in S : y <= x
Min(S) == CHOOSE x \in S : \A y \in S : x <= y

\* s.split('/').pop(): the text after the last "/"
LastSegment(s) ==
    IF SlashPositions(s) = {} THEN s
    ELSE SubSeq(s, Max(SlashPositions(s)) + 1, Len(s))

\* s.split('/')[0]: the text before the first "/"
FirstSegment(s) ==
    IF SlashPositions(s) = {} THEN s
    ELSE SubSeq(s, 1, Min(SlashPositions(s)) - 1)

normalizeDatasetKey(key) ==
    IF StartsWith(key, "datasets/") THEN SubSeq(key, 10, Len(key)) ELSE key

\* s.replace(/_test\.(jsonl?|csv)$/, '')
StripTestSuffix(s) ==
    IF EndsWith(s, "_test.jsonl") THEN DropLast(s, 11)
    ELSE IF EndsWith(s, "_test.json") THEN DropLast(s, 10)
    ELSE IF EndsWith(s, "_test.csv") THEN DropLast(s, 9)
    ELSE s

\* s.replace(/\.(jsonl?|csv)$/, '')
StripExtension(s) ==
    IF EndsWith(s, ".jsonl") THEN DropLast(s, 6)
    ELSE IF EndsWith(s, ".json") THEN DropLast(s, 5)
    ELSE IF EndsWith(s, ".csv") THEN DropLast(s, 4)
    ELSE s

\* extractCategory without its second replace
extractCategoryTestSuffixOnly(file) ==
    LET name == IF LastSegment(file) = "" THEN file ELSE LastSegment(file)
    IN  StripTestSuffix(name)

extractCategory(file) ==
    LET name == IF LastSegment(file) = "" THEN file ELSE LastSegment(file)
    IN  StripExtension(StripTestSuffix(name))

(***************************************************************************)
(* flattenDatasetResults                                                   *)
(***************************************************************************)
\* One entry of a results list: the records it adds, or a TypeError when the
\* entry is null (its file property cannot be read).
FlattenResult(result, normalizedDataset) ==
    IF Nullish(result) THEN [threw |-> TRUE, results |-> <<>>]
    ELSE LET file == Get(result, "file")
             accuracy_mean == Get(result, "accuracy_mean")
             accuracy_std == Get(result, "accuracy_std")
         IN  IF TypeOf(file) = "string" /\ TypeOf(accuracy_mean) = "number"
             THEN [threw |-> FALSE,
                   results |-> << [category |-> normalizedDataset \o "/"
                                                 \o extractCategory(file.s),
                                   file |-> file.s,
                                   accuracy_mean |-> accuracy_mean.n,
                                   accuracy_std |-> accuracy_std] >>]
             ELSE [threw |-> FALSE, results |-> <<>>]

\* for (const result of resultsList), from entry i on, acc the records so far
RECURSIVE FlattenResultsList(_, _, _, _)
FlattenResultsList(resultsList, i, normalizedDataset, acc) ==
    IF i > Len(resultsList) THEN [threw |-> FALSE, results |-> acc]
    ELSE LET r == FlattenResult(resultsList[i], normalizedDataset)
         IN  IF r.threw THEN [threw |-> TRUE, results |-> <<>>]
             ELSE FlattenResultsList(resultsList, i + 1, normalizedDataset,
                                     acc \o r.results)

\* for (const [datasetKey, datasetValue] of Object.entries(datasetResults))
RECURSIVE FlattenDatasets(_, _, _)
FlattenDatasets(entries, i, acc) ==
    IF i > Len(entries) THEN [threw |-> FALSE, results |-> acc]
    ELSE LET datasetKey == entries[i][1]
             datasetValue == entries[i][2]
             normalizedDataset == normalizeDatasetKey(datasetKey)
         IN  IF TypeOf(datasetValue) # "object" \/ datasetValue.t = "null"
             THEN FlattenDatasets(entries, i + 1, acc)
             ELSE LET resultsList == Get(datasetValue, "results")
                  IN  IF ~IsArray(resultsList)
                      THEN FlattenDatasets(entries, i + 1, acc)
                      ELSE LET r == FlattenResultsList(resultsList.a, 1,
                                                       normalizedDataset, acc)
                           IN  IF r.threw THEN r
                               ELSE FlattenDatasets(entries, i + 1, r.results)

flattenDatasetResults(data) ==
    IF TypeOf(data) # "object" \/ data.t = "null"
    THEN [threw |-> FALSE, results |-> <<>>]
    ELSE LET datasetResults == Get(data, "dataset_results")
         IN  IF ~Truthy(datasetResults)
             THEN [threw |-> FALSE, results |-> <<>>]
             ELSE FlattenDatasets(ObjectEntries(datasetResults), 1, <<>>)

(***************************************************************************)
(* categorizeTest                                                          *)
(***************************************************************************)
UpperCaseLetters == "ABCDEFGHIJKLMNOPQRSTUVWXYZ"
LowerCaseLetters == "abcdefghijklmnopqrstuvwxyz"

\* One character of toLowerCase (the ASCII letters; other characters of the
\* inputs used here have no lower-case form).
LowerChar(c) ==
    IF \E i \in 1..26 : SubSeq(UpperCaseLetters, i, i) = c
    THEN LET i == CHOOSE j \in 1..26 : SubSeq(UpperCaseLetters, j, j) = c
         IN  SubSeq(LowerCaseLetters, i, i)
    ELSE c

RECURSIVE toLowerCase(_)
toLowerCase(s) ==
    IF s = "" THEN ""
    ELSE LowerChar(SubSeq(s, 1, 1)) \o toLowerCase(SubSeq(s, 2, Len(s)))

\* name.includes(k1) || name.includes(k2) || ...
AnyIncludes(name, keywords) == \E k \in keywords : Includes(name, k)

\* transform.ts 39-43
ComputerScienceKeywords ==
    {"computer", "machine_learning", "security"}

\* transform.ts 47-54
MathematicsKeywords ==
    {"math", "algebra", "calculus", "geometry", "statistics",
     "trigonometry"}

\* transform.ts 58-75
MedicineHealthKeywords ==
    {"medicine", "nutrition", "anatomy", "clinical", "virology",
     "genetics", "pharmacology", "veterinary", "dentistry", "pharmacy",
     "optometry", "occupational", "therapy", "psychological", "pathology",
     "medical"}

\* transform.ts 79-86
ScienceKeywords ==
    {"physics", "chemistry", "biology", "astronomy", "science", "medical"}

\* transform.ts 90-101
LawGovernmentKeywords ==
    {"law", "legal", "jurisprudence", "government", "politics", "foreign",
     "policy", "politic", "national", "protection"}

\* transform.ts 105-116
HumanitiesPhilosophyKeywords ==
    {"ttqav2", "history", "geography", "philosophy", "logic", "logical",
     "reasoning", "religions", "principles", "moral"}

\* transform.ts 120-142
BusinessEconomicsKeywords ==
    {"business", "economics", "marketing", "accounting", "management",
     "finance", "financial", "analysis", "auditing", "taxation",
     "insurance", "trade", "real", "estate", "trust", "public",
     "relations", "money", "laundering", "econometrics", "humanities"}

\* transform.ts 146-154
SocialSciencesKeywords ==
    {"psychology", "sociology", "behavior", "sexuality", "aging", "social",
     "studies"}

\* transform.ts 157-158
EducationKeywords ==
    {"education", "profession"}

\* transform.ts 162-167
EngineeringTechnicalKeywords ==
    {"mechanical", "technical", "electrical", "engineering"}

\* transform.ts 171-178
VocationalArtsKeywords ==
    {"music", "culinary", "physical", "nautical", "agriculture", "fire"}

\* transform.ts 182-188
LanguagesLiteratureKeywords ==
    {"chinese", "language", "literature", "taiwanese", "hokkien"}

\* transform.ts 192-197
MiscellaneousKeywords ==
    {"miscellaneous", "design", "global", "facts"}

\* The rules in their fixed order: label and keywords
RuleOrder ==
    << <<"Computer Science", ComputerScienceKeywords>>,
       <<"Mathematics", MathematicsKeywords>>,
       <<"Medicine & Health", MedicineHealthKeywords>>,
       <<"Science", ScienceKeywords>>,
       <<"Law & Government", LawGovernmentKeywords>>,
       <<"Humanities & Philosophy", HumanitiesPhilosophyKeywords>>,
       <<"Business & Economics", BusinessEconomicsKeywords>>,
       <<"Social Sciences", SocialSciencesKeywords>>,
       <<"Education", EducationKeywords>>,
       <<"Engineering & Technical", EngineeringTechnicalKeywords>>,
       <<"Vocational & Arts", VocationalArtsKeywords>>,
       <<"Languages & Literature", LanguagesLiteratureKeywords>>,
       <<"Miscellaneous", MiscellaneousKeywords>> >>

\* Mutant: independent ifs that each assign the label, so the last matching
\* rule overrides the earlier ones.
categorizeLoweredLastMatch(name) ==
    LET m == {i \in 1..Len(RuleOrder) : AnyIncludes(name, RuleOrder[i][2])}
    IN  IF m = {} THEN "Other" ELSE RuleOrder[Max(m)][1]

\* The if / else-if chain of categorizeTest on the lower-cased name
categorizeLowered(name) ==
    IF AnyIncludes(name, ComputerScienceKeywords) THEN "Computer Science"
    ELSE IF AnyIncludes(name, MathematicsKeywords) THEN "Mathematics"
    ELSE IF AnyIncludes(name, MedicineHealthKeywords) THEN "Medicine & Health"
    ELSE IF AnyIncludes(name, ScienceKeywords) THEN "Science"
    ELSE IF AnyIncludes(name, LawGovernmentKeywords) THEN "Law & Government"
    ELSE IF AnyIncludes(name, HumanitiesPhilosophyKeywords)
         THEN "Humanities & Philosophy"
    ELSE IF AnyIncludes(name, BusinessEconomicsKeywords)
         THEN "Business & Economics"
    ELSE IF AnyIncludes(name, SocialSciencesKeywords) THEN "Social Sciences"
    ELSE IF AnyIncludes(name, EducationKeywords) THEN "Education"
    ELSE IF AnyIncludes(name, EngineeringTechnicalKeywords)
         THEN "Engineering & Technical"
    ELSE IF AnyIncludes(name, VocationalArtsKeywords) THEN "Vocational & Arts"
    ELSE IF AnyIncludes(name, LanguagesLiteratureKeywords)
         THEN "Languages & Literature"
    ELSE IF AnyIncludes(name, MiscellaneousKeywords) THEN "Miscellaneous"
    ELSE "Other"

\* Mutant: the final return is missing, so an unmatched name yields no label.
categorizeTestNoFallback(fname) ==
    LET l == categorizeLowered(toLowerCase(fname))
    IN  IF l = "Other" THEN "" ELSE l

\* Mutant: the name is matched as given, without toLowerCase.
categorizeTestCaseSensitive(fname) == categorizeLowered(fname)

categorizeTest(fname) == categorizeLowered(toLowerCase(fname))

(***************************************************************************)
(* Bounded sequences                                                       *)
(***************************************************************************)
\* The sequences over S of length at most n
SeqsUpTo(S, n) == UNION {[1..k -> S] : k \in 0..n}

(***************************************************************************)
(* Specification of flattenDatasetResults: any JSON-like document         *)
(***************************************************************************)
MaxEntries == 2

GoodAlgebra ==
    JObj(<< <<"file", JStr("algebra_test.csv")>>, <<"accuracy_mean", JNum(80)>> >>)
GoodBiology ==
    JObj(<< <<"file", JStr("sub/biology_test.json")>>,
            <<"accuracy_mean", JNum(60)>>, <<"accuracy_std", JNum(5)>> >>)
GoodHistory ==
    JObj(<< <<"file", JStr("history.jsonl")>>, <<"accuracy_mean", JNum(40)>>,
            <<"accuracy_std", JStr("n/a")>> >>)

\* The values an entry of a results list is drawn from
EntryValues ==
    { JNull, JNum(7), JStr("x"), JObj(<<>>), GoodAlgebra, GoodBiology,
      JObj(<< <<"file", JNum(3)>>, <<"accuracy_mean", JNum(80)>> >>),
      JObj(<< <<"file", JStr("algebra_test.csv")>>,
              <<"accuracy_mean", JStr("0.8")>> >>),
      JObj(<< <<"file", JStr("algebra_test.csv")>>,
              <<"accuracy_mean", JNull>> >>) }

\* The values one dataset key maps to
DatasetValues ==
    { JNull, JNum(1), JStr("r"), JObj(<<>>), JArr(<<GoodAlgebra>>),
      JObj(<< <<"results", JNull>> >>),
      JObj(<< <<"results", JStr("rs")>> >>),
      JObj(<< <<"results", JObj(<< <<"0", GoodAlgebra>> >>)>> >>) }
    \cup { JObj(<< <<"results", JArr(l)>> >>) : l \in SeqsUpTo(EntryValues, MaxEntries) }

\* The values of the dataset_results property
DatasetResultsValues ==
    { JNull, JNum(0), JNum(5), JStr(""), JStr("ab"), JBool(FALSE), JBool(TRUE),
      JObj(<<>>) }
    \cup { JObj(<< <<"datasets/mmlu", d>> >>) : d \in DatasetValues }
    \cup { JObj(<< <<"datasets/mmlu", d>>,
                   <<"tmmluplus", JObj(<< <<"results", JArr(<<GoodHistory>>)>> >>)>> >>)
           : d \in DatasetValues }
    \cup { JArr(<<d>>) : d \in DatasetValues }

Documents ==
    { JNull, JNum(3), JStr("doc"), JBool(TRUE), JArr(<<>>), JArr(<<GoodAlgebra>>),
      JObj(<<>>), JObj(<< <<"timestamp", JStr("t1")>> >>) }
    \cup { JObj(<< <<"timestamp", JStr("t1")>>, <<"dataset_results", r>> >>)
           : r \in DatasetResultsValues }

InitFlatten ==
    /\ pc = "input"
    /\ rawData \in Documents
    /\ flat = NoValue
    /\ filename = "" /\ subject = "" /\ sources = <<>> /\ out = NoValue
    /\ deltas = <<>>
    /\ arg = NoValue
    /\ config = NoValue
    /\ loading = FALSE
    /\ selectedSourceIds = <<>>
    /\ viewMode = "dashboard"
    /\ loadsStarted = 0
    /\ loadsFinished = 0
    /\ uploadCount = 0
    /\ dataSchema = {}
    /\ uploads = <<>>
    /\ expandedCategory = ""

Flatten ==
    /\ pc = "input"
    /\ flat' = flattenDatasetResults(rawData)
    /\ pc' = "flattenDatasetResults"
    /\ UNCHANGED <<rawData, filename, subject, sources, out, deltas, arg, config, loading, selectedSourceIds, viewMode, loadsStarted, loadsFinished, uploadCount, dataSchema, uploads, expandedCategory>>

NextFlatten == Flatten

SpecFlatten == InitFlatten /\ [][NextFlatten]_vars

\* The (file, accuracy_mean) pairs of the entries of a results list that are
\* objects with a string file and a numeric accuracy_mean, in list order
RECURSIVE ContributingEntries(_)
ContributingEntries(l) ==
    IF l = <<>> THEN <<>>
    ELSE LET e == Head(l)
             here == IF /\ e.t = "object"
                        /\ Get(e, "file").t = "string"
                        /\ Get(e, "accuracy_mean").t = "number"
                     THEN << <<Get(e, "file").s, Get(e, "accuracy_mean").n>> >>
                     ELSE <<>>
         IN  here \o ContributingEntries(Tail(l))

\* The same over every dataset of a document whose value holds a results list
RECURSIVE ContributingOfDatasets(_)
ContributingOfDatasets(entries) ==
    IF entries = <<>> THEN <<>>
    ELSE LET d == Head(entries)[2]
             here == IF d.t = "object" /\ Get(d, "results").t = "array"
                     THEN ContributingEntries(Get(d, "results").a)
                     ELSE <<>>
         IN  here \o ContributingOfDatasets(Tail(entries))

ContributingOfDocument(d) ==
    IF d.t = "object" /\ Get(d, "dataset_results").t \in {"object", "array"}
    THEN ContributingOfDatasets(ObjectEntries(Get(d, "dataset_results")))
    ELSE <<>>

\* The document is a non-null object that holds a dataset_results map
HasDatasetResultsMap(d) ==
    d.t = "object" /\ Get(d, "dataset_results").t = "object"

\* C4: flattenDatasetResults never raises, for any JSON-like document, and it
\* returns the empty list when the document is no object or holds no
\* dataset_results map.
C4_FlattenNeverThrows ==
    pc = "flattenDatasetResults" =>
        /\ ~flat.threw
        /\ ~HasDatasetResultsMap(rawData) /\ rawData.t # "object"
              => flat.results = <<>>
        /\ rawData.t = "object" /\ Get(rawData, "dataset_results") = Undefined
              => flat.results = <<>>

\* C5: the records returned are exactly those of the entries whose file is a
\* string and whose accuracy_mean is a number, one per entry and in document
\* order; every other entry, whatever its value, is skipped and the entries
\* before and after it are still processed.
C5_EntryContributesIff ==
    pc = "flattenDatasetResults" =>
        /\ ~flat.threw
        /\ [i \in 1..Len(flat.results) |->
                <<flat.results[i].file, flat.results[i].accuracy_mean>>]
           = ContributingOfDocument(rawData)

(***************************************************************************)
(* Specification of categorizeTest: any string                            *)
(***************************************************************************)
MaxFragments == 2

AllKeywords ==
    ComputerScienceKeywords \cup MathematicsKeywords \cup MedicineHealthKeywords
    \cup ScienceKeywords \cup LawGovernmentKeywords
    \cup HumanitiesPhilosophyKeywords \cup BusinessEconomicsKeywords
    \cup SocialSciencesKeywords \cup EducationKeywords
    \cup EngineeringTechnicalKeywords \cup VocationalArtsKeywords
    \cup LanguagesLiteratureKeywords \cup MiscellaneousKeywords

\* One keyword of every rule, an upper-case keyword, and text that holds none
Fragments ==
    { "computer", "math", "medical", "science", "law", "logic", "real",
      "social", "education", "technical", "physical", "language", "facts",
      "Algebra", "mmlu/", "x", "_" }

RECURSIVE Concat(_)
Concat(ss) == IF ss = <<>> THEN "" ELSE Head(ss) \o Concat(Tail(ss))

FileNames ==
    AllKeywords \cup { Concat(ss) : ss \in SeqsUpTo(Fragments, MaxFragments) }

InitClassify ==
    /\ pc = "input"
    /\ filename \in FileNames
    /\ subject = ""
    /\ rawData = NoValue /\ flat = NoValue /\ sources = <<>> /\ out = NoValue
    /\ deltas = <<>>
    /\ arg = NoValue
    /\ config = NoValue
    /\ loading = FALSE
    /\ selectedSourceIds = <<>>
    /\ viewMode = "dashboard"
    /\ loadsStarted = 0
    /\ loadsFinished = 0
    /\ uploadCount = 0
    /\ dataSchema = {}
    /\ uploads = <<>>
    /\ expandedCategory = ""

Classify ==
    /\ pc = "input"
    /\ subject' = categorizeTest(filename)
    /\ pc' = "categorizeTest"
    /\ UNCHANGED <<rawData, flat, filename, sources, out, deltas, arg, config, loading, selectedSourceIds, viewMode, loadsStarted, loadsFinished, uploadCount, dataSchema, uploads, expandedCategory>>

NextClassify == Classify

SpecClassify == InitClassify /\ [][NextClassify]_vars

\* The closed set of subject labels
SubjectCategories ==
    { "Computer Science", "Mathematics", "Medicine & Health", "Science",
      "Law & Government", "Humanities & Philosophy", "Business & Economics",
      "Social Sciences", "Education", "Engineering & Technical",
      "Vocational & Arts", "Languages & Literature", "Miscellaneous", "Other" }

\* C6: for every string, categorizeTest returns one label of the closed set
\* (never an empty or missing one), and it returns Other when the string holds
\* none of the rule keywords (matched, as everywhere, on the lower-cased string).
C6_ClassifierTotal ==
    pc = "categorizeTest" =>
        /\ subject \in SubjectCategories
        /\ ~AnyIncludes(toLowerCase(filename), AllKeywords) => subject = "Other"

C6_Witness ==
    /\ pc = "categorizeTest"
    /\ filename = "mmlu/x"
    /\ ~AnyIncludes(toLowerCase(filename), AllKeywords)
    /\ subject = "Other"

\* The rules whose keywords the lower-cased string holds, as indices of RuleOrder
MatchingRules(fname) ==
    {i \in 1..Len(RuleOrder) : AnyIncludes(toLowerCase(fname), RuleOrder[i][2])}

\* C7: when a string holds keywords of several rules, the label is that of the
\* rule that comes first in the fixed order; no later rule overrides it.
C7_FirstMatchingRuleWins ==
    pc = "categorizeTest" /\ MatchingRules(filename) # {} =>
        subject = RuleOrder[Min(MatchingRules(filename))][1]

C7_Witness ==
    /\ pc = "categorizeTest"
    /\ Cardinality(MatchingRules(filename)) >= 2
    /\ filename = "sciencemath"
    /\ subject = "Mathematics"

(***************************************************************************)
(* Insertion-ordered maps (Map, and the keys of a plain object): sequences *)
(* of <<key, value>> pairs with distinct keys                              *)
(***************************************************************************)
MapHas(m, k) == \E i \in 1..Len(m) : m[i][1] = k
MapGet(m, k) == m[CHOOSE i \in 1..Len(m) : m[i][1] = k][2]
MapKeys(m) == [i \in 1..Len(m) |-> m[i][1]]
MapValues(m) == [i \in 1..Len(m) |-> m[i][2]]
\* m.set(k, v): a key that is there keeps its place
MapSet(m, k, v) ==
    IF MapHas(m, k)
    THEN [i \in 1..Len(m) |-> IF m[i][1] = k THEN <<k, v>> ELSE m[i]]
    ELSE Append(m, <<k, v>>)

(***************************************************************************)
(* DataSource lists                                                        *)
(***************************************************************************)

\* One entry of a results list
ResultEntry(file, accuracy_mean) ==
    JObj(<< <<"file", JStr(file)>>, <<"accuracy_mean", JNum(accuracy_mean)>> >>)

\* One entry of a results list that keeps the accuracies of its runs
ResultEntryWithRuns(file, accuracy_mean, accuracies) ==
    JObj(<< <<"file", JStr(file)>>, <<"accuracy_mean", JNum(accuracy_mean)>>,
            <<"individual_runs",
              JObj(<< <<"accuracies",
                        JArr([i \in 1..Len(accuracies) |-> JNum(accuracies[i])])>> >>)>> >>)

\* The document whose datasets, in order of first appearance, and their
\* results lists hold the records recs, each a <<datasetKey, file, accuracy>>
\* or a <<datasetKey, file, accuracy, accuracies of the runs>>, or a
\* <<datasetKey>> that stands for a null in the results list
RECURSIVE DatasetResultsOf(_, _)
DatasetResultsOf(recs, acc) ==
    IF recs = <<>> THEN acc
    ELSE LET r == Head(recs)
             entry == IF Len(r) = 1 THEN JNull
                      ELSE IF Len(r) = 4 THEN ResultEntryWithRuns(r[2], r[3], r[4])
                      ELSE ResultEntry(r[2], r[3])
             list == IF MapHas(acc, r[1])
                     THEN Get(MapGet(acc, r[1]), "results").a
                     ELSE <<>>
         IN  DatasetResultsOf(Tail(recs),
                 MapSet(acc, r[1], JObj(<< <<"results", JArr(Append(list, entry))>> >>)))

DocumentOf(recs) ==
    JObj(<< <<"timestamp", JStr("2025-01-01T00:00:00")>>,
            <<"dataset_results", JObj(DatasetResultsOf(recs, <<>>))>> >>)

\* The records placed in slot k, in order
RECURSIVE RecordsOfSlot(_, _)
RecordsOfSlot(placed, k) ==
    IF placed = <<>> THEN <<>>
    ELSE (IF Head(placed)[1] = k THEN <<Head(placed)[2]>> ELSE <<>>)
         \o RecordsOfSlot(Tail(placed), k)

\* The slots used by placed, in order of first appearance
RECURSIVE SlotsUsed(_, _)
SlotsUsed(placed, acc) ==
    IF placed = <<>> THEN acc
    ELSE SlotsUsed(Tail(placed),
                   IF \E i \in 1..Len(acc) : acc[i] = Head(placed)[1]
                   THEN acc ELSE Append(acc, Head(placed)[1]))

\* The source list built from placed, a sequence of <<slot, record>>: one
\* source per slot used, with the identity slots[k] and the document of the
\* records placed in it.
SourcesOf(placed, slots) ==
    LET used == SlotsUsed(placed, <<>>)
    IN  [i \in 1..Len(used) |->
            [id |-> slots[used[i]].id,
             modelName |-> slots[used[i]].modelName,
             variance |-> slots[used[i]].variance,
             timestamp |-> slots[used[i]].timestamp,
             isOfficial |-> slots[used[i]].isOfficial,
             rawData |-> DocumentOf(RecordsOfSlot(placed, used[i]))]]

\* The source lists with at most n records in all, each record placed in a
\* slot: placements is the set of <<slot, record>> pairs to draw from
SourceLists(slots, placements, n) ==
    { SourcesOf(p, slots) : p \in SeqsUpTo(placements, n) }

\* Some source's document makes flattenDatasetResults raise
AnyThrows(srcs) == \E i \in 1..Len(srcs) : flattenDatasetResults(srcs[i].rawData).threw

Thrown == [threw |-> TRUE]
Returned(v) == [threw |-> FALSE, value |-> v]

(***************************************************************************)
(* buildPivotTable                                                         *)
(***************************************************************************)
\* `${modelName}${varianceLabel} @ ${timestamp}${isOfficial ? ' (Official)' : ''}`
SourceLabel(source) ==
    source.modelName
    \o (IF source.variance # "default" THEN " (" \o source.variance \o ")" ELSE "")
    \o " @ " \o source.timestamp
    \o (IF source.isOfficial THEN " (Official)" ELSE "")

\* Mutant: a cell that is already there is kept (first write wins).
PivotUpsertKeepFirst(categoryMap, result, sourceLabel) ==
    IF MapHas(categoryMap, result.category)
    THEN LET row == MapGet(categoryMap, result.category)
         IN  IF MapHas(row.cells, sourceLabel) THEN categoryMap
             ELSE MapSet(categoryMap, result.category,
                         [row EXCEPT !.cells =
                             MapSet(@, sourceLabel, result.accuracy_mean)])
    ELSE MapSet(categoryMap, result.category,
                [category |-> result.category,
                 cells |-> << <<sourceLabel, result.accuracy_mean>> >>])

\* Mutant: a row is made for every record, also when its category has one.
PivotUpsertAlwaysNew(categoryMap, result, sourceLabel) ==
    Append(categoryMap,
           <<result.category,
             [category |-> result.category,
              cells |-> << <<sourceLabel, result.accuracy_mean>> >>]>>)

\* Mutant: the row of a category seen again moves to the end of the map.
PivotUpsertMoveToEnd(categoryMap, result, sourceLabel) ==
    LET row == IF MapHas(categoryMap, result.category)
               THEN MapGet(categoryMap, result.category)
               ELSE [category |-> result.category, cells |-> <<>>]
        others == SelectSeq(categoryMap, LAMBDA e : e[1] # result.category)
    IN  Append(others,
               <<result.category,
                 [row EXCEPT !.cells = MapSet(@, sourceLabel, result.accuracy_mean)]>>)

\* The body of the inner loop: get or create the row of the record's category
\* and set its cell for sourceLabel.  A row is [category, cells], cells the
\* properties of the row object other than category.
PivotUpsert(categoryMap, result, sourceLabel) ==
    LET row == IF MapHas(categoryMap, result.category)
               THEN MapGet(categoryMap, result.category)
               ELSE [category |-> result.category, cells |-> <<>>]
    IN  MapSet(categoryMap, result.category,
               [row EXCEPT !.cells = MapSet(@, sourceLabel, result.accuracy_mean)])

RECURSIVE PivotResults(_, _, _)
PivotResults(categoryMap, results, sourceLabel) ==
    IF results = <<>> THEN categoryMap
    ELSE PivotResults(PivotUpsert(categoryMap, Head(results), sourceLabel),
                      Tail(results), sourceLabel)

RECURSIVE PivotSources(_, _)
PivotSources(categoryMap, srcs) ==
    IF srcs = <<>> THEN categoryMap
    ELSE PivotSources(
            PivotResults(categoryMap,
                         flattenDatasetResults(Head(srcs).rawData).results,
                         SourceLabel(Head(srcs))),
            Tail(srcs))

buildPivotTable(srcs) ==
    IF AnyThrows(srcs) THEN Thrown
    ELSE Returned(MapValues(PivotSources(<<>>, srcs)))

(***************************************************************************)
(* Specification of buildPivotTable                                        *)
(***************************************************************************)
MaxPivotRecords == 3

\* Two uploads of one model with the same timestamp (the same label), and an
\* official run of another model
PivotSlots ==
    << [id |-> "upload-1", modelName |-> "m1", variance |-> "default",
        timestamp |-> "t1", isOfficial |-> FALSE],
       [id |-> "official-b2-202501010000", modelName |-> "m2", variance |-> "v2",
        timestamp |-> "2025-01-01 00:00", isOfficial |-> TRUE],
       [id |-> "upload-3", modelName |-> "m1", variance |-> "default",
        timestamp |-> "t1", isOfficial |-> FALSE] >>

Accuracies == {50, 90}

PivotRecords ==
    { <<"datasets/mmlu", "algebra_test.csv", a>> : a \in Accuracies }
    \cup { <<"tmmluplus", "sub/biology.json", a>> : a \in Accuracies }

InitPivot ==
    /\ pc = "input"
    /\ sources \in SourceLists(PivotSlots, (1..Len(PivotSlots)) \X PivotRecords,
                               MaxPivotRecords)
    /\ out = NoValue
    /\ rawData = NoValue /\ flat = NoValue /\ filename = "" /\ subject = ""
    /\ deltas = <<>>
    /\ arg = NoValue
    /\ config = NoValue
    /\ loading = FALSE
    /\ selectedSourceIds = <<>>
    /\ viewMode = "dashboard"
    /\ loadsStarted = 0
    /\ loadsFinished = 0
    /\ uploadCount = 0
    /\ dataSchema = {}
    /\ uploads = <<>>
    /\ expandedCategory = ""

BuildPivot ==
    /\ pc = "input"
    /\ out' = buildPivotTable(sources)
    /\ pc' = "buildPivotTable"
    /\ UNCHANGED <<rawData, flat, filename, subject, sources, deltas, arg, config, loading, selectedSourceIds, viewMode, loadsStarted, loadsFinished, uploadCount, dataSchema, uploads, expandedCategory>>

NextPivot == BuildPivot

SpecPivot == InitPivot /\ [][NextPivot]_vars

\* The flattened records of every source, in document order
FlatRecords ==
    [i \in 1..Len(sources) |-> flattenDatasetResults(sources[i].rawData).results]

\* The <<source index, record index>> pairs of the records R
RecordIndices(R) == UNION { {i} \X (1..Len(R[i])) : i \in DOMAIN R }

\* Those of the sources labelled l whose category is c
RecordsFor(R, l, c) ==
    { p \in RecordIndices(R) :
        SourceLabel(sources[p[1]]) = l /\ R[p[1]][p[2]].category = c }

\* The last of a non-empty set of <<source index, record index>> pairs in the
\* order the sources and their records are scanned
LastOf(ps) ==
    CHOOSE p \in ps : \A q \in ps : q[1] < p[1] \/ (q[1] = p[1] /\ q[2] <= p[2])

AllCategories(R) == { R[p[1]][p[2]].category : p \in RecordIndices(R) }

AllLabels == { SourceLabel(sources[i]) : i \in 1..Len(sources) }

\* C8: buildPivotTable returns one row per distinct flattened category, and a
\* row has a cell under a label exactly when a source with that label has a
\* record for the row's category, the cell holding the accuracy_mean of such a
\* record; a source without a record for the category leaves no cell.
C8_PivotRowsAndCells ==
    pc = "buildPivotTable" =>
      LET R == FlatRecords
      IN
        /\ ~out.threw
        /\ \A i, j \in 1..Len(out.value) :
               out.value[i].category = out.value[j].category => i = j
        /\ { out.value[i].category : i \in 1..Len(out.value) } = AllCategories(R)
        /\ \A i \in 1..Len(out.value) :
             LET row == out.value[i]
             IN  /\ \A k \in 1..Len(row.cells) : row.cells[k][1] \in AllLabels
                 /\ \A l \in AllLabels :
                      LET ps == RecordsFor(R, l, row.category)
                      IN  /\ MapHas(row.cells, l) <=> ps # {}
                          /\ MapHas(row.cells, l) =>
                               \E p \in ps :
                                  MapGet(row.cells, l) = R[p[1]][p[2]].accuracy_mean

\* Two rows, one of them without a cell for one of the labels
C8_Witness ==
    /\ pc = "buildPivotTable"
    /\ ~out.threw
    /\ Len(out.value) = 2
    /\ Cardinality(AllLabels) = 2
    /\ \E i \in 1..2 : Len(out.value[i].cells) = 1

\* C9: when sources with the same label each have a record for a category,
\* buildPivotTable raises nothing and the cell holds the value written last,
\* that of the source that comes later in the list.
C9_PivotLastWriteWins ==
    pc = "buildPivotTable" =>
      LET R == FlatRecords
      IN
        /\ ~out.threw
        /\ \A i \in 1..Len(out.value) : \A l \in AllLabels :
             LET ps == RecordsFor(R, l, out.value[i].category)
                 last == LastOf(ps)
             IN  ps # {} =>
                   /\ MapHas(out.value[i].cells, l)
                   /\ MapGet(out.value[i].cells, l)
                        = R[last[1]][last[2]].accuracy_mean

\* Two sources with one label hold different values for one category, and the
\* cell holds the later one's
C9_Witness ==
    /\ pc = "buildPivotTable"
    /\ ~out.threw
    /\ Len(sources) = 2
    /\ SourceLabel(sources[1]) = SourceLabel(sources[2])
    /\ sources[1].id # sources[2].id
    /\ Len(FlatRecords[1]) = 1 /\ Len(FlatRecords[2]) = 1
    /\ FlatRecords[1][1].category = FlatRecords[2][1].category
    /\ FlatRecords[1][1].accuracy_mean = 50
    /\ FlatRecords[2][1].accuracy_mean = 90
    /\ out.value = << [category |-> FlatRecords[1][1].category,
                       cells |-> << <<SourceLabel(sources[1]), 90>> >>] >>

\* The first of a non-empty set of <<source index, record index>> pairs in the
\* order the sources and their records are scanned
FirstOf(ps) ==
    CHOOSE p \in ps : \A q \in ps : p[1] < q[1] \/ (p[1] = q[1] /\ p[2] <= q[2])

\* The records of category c, whatever their source
RecordsOfCategory(R, c) == { p \in RecordIndices(R) : R[p[1]][p[2]].category = c }

\* p is scanned before q
ScannedBefore(p, q) == p[1] < q[1] \/ (p[1] = q[1] /\ p[2] < q[2])

\* C18: the rows buildPivotTable returns are in the order in which their
\* categories first appear when the sources are scanned in input order and
\* the records of each source in document order.
C18_PivotRowsInFirstAppearanceOrder ==
    pc = "buildPivotTable" /\ ~out.threw =>
      LET R == FlatRecords
      IN  \A i, j \in 1..Len(out.value) :
            i < j =>
              /\ RecordsOfCategory(R, out.value[i].category) # {}
              /\ RecordsOfCategory(R, out.value[j].category) # {}
              /\ ScannedBefore(FirstOf(RecordsOfCategory(R, out.value[i].category)),
                               FirstOf(RecordsOfCategory(R, out.value[j].category)))

\* Two rows, the category of the first seen again after the category of the
\* second has appeared
C18_Witness ==
    /\ pc = "buildPivotTable"
    /\ ~out.threw
    /\ Len(out.value) = 2
    /\ LET R == FlatRecords
           first == RecordsOfCategory(R, out.value[1].category)
           second == RecordsOfCategory(R, out.value[2].category)
       IN  \E p \in first : ScannedBefore(FirstOf(second), p)

(***************************************************************************)
(* calculateDeltas                                                         *)
(***************************************************************************)
Abs(x) == IF x < 0 THEN -x ELSE x

\* new Map(baselineResults.map((r) => [r.category, r.accuracy_mean])): a
\* category that repeats keeps its last value
RECURSIVE BaselineMap(_, _)
BaselineMap(results, acc) ==
    IF results = <<>> THEN acc
    ELSE BaselineMap(Tail(results),
                     MapSet(acc, Head(results).category, Head(results).accuracy_mean))

\* `${modelName} @ ${timestamp}${isOfficial ? ' (Official)' : ''}`
CandidateLabel(candidate) ==
    candidate.modelName \o " @ " \o candidate.timestamp
    \o (IF candidate.isOfficial THEN " (Official)" ELSE "")

\* Mutant: the difference is taken the other way round.
DeltaRowReversed(result, baseline, candidateLabel) ==
    [category |-> result.category,
     baseline |-> baseline,
     candidate |-> result.accuracy_mean,
     delta |-> baseline - result.accuracy_mean,
     absDelta |-> Abs(baseline - result.accuracy_mean),
     candidateLabel |-> candidateLabel]

DeltaRow(result, baseline, candidateLabel) ==
    [category |-> result.category,
     baseline |-> baseline,
     candidate |-> result.accuracy_mean,
     delta |-> result.accuracy_mean - baseline,
     absDelta |-> Abs(result.accuracy_mean - baseline),
     candidateLabel |-> candidateLabel]

\* Mutant: a record with no baseline counterpart is compared with 0 instead of
\* being dropped (an outer join).
DeltasOfResultsOuter(results, baselineMap, candidateLabel) ==
    [i \in 1..Len(results) |->
        DeltaRow(results[i],
                 IF MapHas(baselineMap, results[i].category)
                 THEN MapGet(baselineMap, results[i].category) ELSE 0,
                 candidateLabel)]

\* for (const result of candidateResults): the rows of one candidate
RECURSIVE DeltasOfResults(_, _, _)
DeltasOfResults(results, baselineMap, candidateLabel) ==
    IF results = <<>> THEN <<>>
    ELSE (IF MapHas(baselineMap, Head(results).category)
          THEN << DeltaRow(Head(results),
                           MapGet(baselineMap, Head(results).category),
                           candidateLabel) >>
          ELSE <<>>)
         \o DeltasOfResults(Tail(results), baselineMap, candidateLabel)

\* for (const candidate of candidateSources)
RECURSIVE DeltasOfCandidates(_, _)
DeltasOfCandidates(candidateSources, baselineMap) ==
    IF candidateSources = <<>> THEN <<>>
    ELSE DeltasOfResults(flattenDatasetResults(Head(candidateSources).rawData).results,
                         baselineMap, CandidateLabel(Head(candidateSources)))
         \o DeltasOfCandidates(Tail(candidateSources), baselineMap)

calculateDeltas(baselineSource, candidateSources) ==
    IF AnyThrows(<<baselineSource>> \o candidateSources) THEN Thrown
    ELSE Returned(DeltasOfCandidates(candidateSources,
            BaselineMap(flattenDatasetResults(baselineSource.rawData).results, <<>>)))

(***************************************************************************)
(* Specification of calculateDeltas: the first source of the list is the   *)
(* baseline, the others are the candidates                                 *)
(***************************************************************************)
MaxDeltaRecords == 4

DeltaSlots ==
    << [id |-> "official-b1-202501010000", modelName |-> "m1", variance |-> "default",
        timestamp |-> "2025-01-01 00:00", isOfficial |-> TRUE],
       [id |-> "upload-2", modelName |-> "m2", variance |-> "default",
        timestamp |-> "t2", isOfficial |-> FALSE],
       [id |-> "upload-3", modelName |-> "m3", variance |-> "default",
        timestamp |-> "t3", isOfficial |-> FALSE] >>

\* The first slot holds categories a and b, the second b and c (twice b, with
\* different values), the third a
DeltaPlacements ==
    { <<1, <<"datasets/mmlu", "a_test.csv", 60>> >>,
      <<1, <<"datasets/mmlu", "b_test.csv", 60>> >>,
      <<1, <<"datasets/mmlu", "b_test.csv", 90>> >>,
      <<2, <<"datasets/mmlu", "b_test.csv", 75>> >>,
      <<2, <<"datasets/mmlu", "sub/b_test.csv", 40>> >>,
      <<2, <<"datasets/mmlu", "c_test.csv", 75>> >>,
      <<3, <<"datasets/mmlu", "a_test.csv", 60>> >>,
      <<3, <<"mmlu", "b.json", 50>> >> }

InitDeltas ==
    /\ pc = "input"
    /\ sources \in SourceLists(DeltaSlots, DeltaPlacements, MaxDeltaRecords)
    /\ out = NoValue
    /\ rawData = NoValue /\ flat = NoValue /\ filename = "" /\ subject = ""
    /\ deltas = <<>>
    /\ arg = NoValue
    /\ config = NoValue
    /\ loading = FALSE
    /\ selectedSourceIds = <<>>
    /\ viewMode = "dashboard"
    /\ loadsStarted = 0
    /\ loadsFinished = 0
    /\ uploadCount = 0
    /\ dataSchema = {}
    /\ uploads = <<>>
    /\ expandedCategory = ""

CalculateDeltas ==
    /\ pc = "input"
    /\ sources # <<>>
    /\ out' = calculateDeltas(Head(sources), Tail(sources))
    /\ pc' = "calculateDeltas"
    /\ UNCHANGED <<rawData, flat, filename, subject, sources, deltas, arg, config, loading, selectedSourceIds, viewMode, loadsStarted, loadsFinished, uploadCount, dataSchema, uploads, expandedCategory>>

NextDeltas == CalculateDeltas

SpecDeltas == InitDeltas /\ [][NextDeltas]_vars

\* The categories of the records of source i
CategoriesOf(R, i) == { R[i][j].category : j \in 1..Len(R[i]) }

\* The <<source index, record index>> pairs of the candidates' records whose
\* category the baseline has too, in the order they are scanned
RECURSIVE JoinedRecords(_, _, _)
JoinedRecords(R, i, j) ==
    IF i > Len(R) THEN <<>>
    ELSE IF j > Len(R[i]) THEN JoinedRecords(R, i + 1, 1)
    ELSE (IF R[i][j].category \in CategoriesOf(R, 1) THEN << <<i, j>> >> ELSE <<>>)
         \o JoinedRecords(R, i, j + 1)

\* C3: calculateDeltas emits a row for a candidate record exactly when the
\* record's category is a key of the baseline's lookup: one row per such record,
\* in scanning order, and none for a category only the baseline or only a
\* candidate has.
C3_DeltaInnerJoin ==
    pc = "calculateDeltas" =>
      LET R == FlatRecords
          joined == JoinedRecords(R, 2, 1)
      IN
        /\ ~out.threw
        /\ Len(out.value) = Len(joined)
        /\ \A k \in 1..Len(joined) :
             /\ out.value[k].category = R[joined[k][1]][joined[k][2]].category
             /\ out.value[k].candidate = R[joined[k][1]][joined[k][2]].accuracy_mean
             /\ out.value[k].candidateLabel = CandidateLabel(sources[joined[k][1]])
        /\ \A k \in 1..Len(out.value) :
             /\ out.value[k].category \in CategoriesOf(R, 1)
             /\ \E i \in 2..Len(R) : out.value[k].category \in CategoriesOf(R, i)

\* Baseline {a, b} and candidate {b, c} give one row, for b
C3_Witness ==
    /\ pc = "calculateDeltas"
    /\ Len(sources) = 2
    /\ CategoriesOf(FlatRecords, 1) = {"mmlu/a", "mmlu/b"}
    /\ CategoriesOf(FlatRecords, 2) = {"mmlu/b", "mmlu/c"}
    /\ Len(FlatRecords[2]) = 2
    /\ ~out.threw
    /\ Len(out.value) = 1
    /\ out.value[1].category = "mmlu/b"

\* The value the baseline holds for category c: that of its last record of c
BaselineValue(R, c) ==
    R[1][Max({ j \in 1..Len(R[1]) : R[1][j].category = c })].accuracy_mean

RECURSIVE GCD(_, _)
GCD(a, b) == IF b = 0 THEN a ELSE GCD(b, a % b)

Rat(n, d) ==
    LET g == GCD(Abs(n), d)
    IN  [num |-> n \div g, den |-> d \div g]

RatAdd(x, y) == Rat(x.num * y.den + y.num * x.den, x.den * y.den)
RatSub(x, y) == Rat(x.num * y.den - y.num * x.den, x.den * y.den)
RatMul(x, y) == Rat(x.num * y.num, x.den * y.den)
RatDivInt(x, n) == Rat(x.num, x.den * n)
RatLess(x, y) == x.num * y.den < y.num * x.den

RECURSIVE SumInts(_)
SumInts(s) == IF s = <<>> THEN 0 ELSE Head(s) + SumInts(Tail(s))

RECURSIVE SumRats(_)
SumRats(s) == IF s = <<>> THEN Rat(0, 1) ELSE RatAdd(Head(s), SumRats(Tail(s)))

\* The elements of a sequence, as a set
Range(s) == { s[i] : i \in 1..Len(s) }

(***************************************************************************)
(* String order                                                            *)
(***************************************************************************)
\* The characters of dataset and file names, in code-unit order
Ascii ==
    " &-./0123456789ABCDEFGHIJKLMNOPQRSTUVWXYZ_abcdefghijklmnopqrstuvwxyz"

CharCode(c) == CHOOSE i \in 1..Len(Ascii) : SubSeq(Ascii, i, i) = c

\* a < b by UTF-16 code units, the order of Array.prototype.sort() without a
\* comparator
RECURSIVE CodeUnitLess(_, _)
CodeUnitLess(a, b) ==
    IF b = "" THEN FALSE
    ELSE IF a = "" THEN TRUE
    ELSE IF SubSeq(a, 1, 1) = SubSeq(b, 1, 1)
         THEN CodeUnitLess(SubSeq(a, 2, Len(a)), SubSeq(b, 2, Len(b)))
    ELSE CharCode(SubSeq(a, 1, 1)) < CharCode(SubSeq(b, 1, 1))

\* a.localeCompare(b) < 0; for the names used here (lower-case letters, digits
\* and "/") the locale's collation agrees with the code-unit order
LocaleLess(a, b) == CodeUnitLess(a, b)

\* Mutant: x goes before the elements it ties with (an unstable sort).
InsertSortedBeforeEquals(s, x, less) ==
    LET notLess == { i \in 1..Len(s) : <<s[i], x>> \notin less }
        p == IF notLess = {} THEN Len(s) + 1 ELSE Min(notLess)
    IN  SubSeq(s, 1, p - 1) \o <<x>> \o SubSeq(s, p, Len(s))

\* Insert x into the sorted sequence s before the first element greater than
\* it, hence after its equals (the sort is stable); less holds the pairs
\* <<a, b>> that the comparator puts a before b
InsertSorted(s, x, less) ==
    LET greater == { i \in 1..Len(s) : <<x, s[i]>> \in less }
        p == IF greater = {} THEN Len(s) + 1 ELSE Min(greater)
    IN  SubSeq(s, 1, p - 1) \o <<x>> \o SubSeq(s, p, Len(s))

\* array.sort(comparator)
SortBy(s, less) ==
    LET sorted[k \in 0..Len(s)] ==
            IF k = 0 THEN <<>> ELSE InsertSorted(sorted[k - 1], s[k], less)
    IN  sorted[Len(s)]

(***************************************************************************)
(* BenchmarkRankingTable.benchmarkData                                     *)
(***************************************************************************)
extractBenchmarkName(category) ==
    IF FirstSegment(category) = "" THEN category ELSE FirstSegment(category)

\* parts.length > 1 ? parts.slice(1).join('/') : category
extractTestName(category) ==
    IF SlashPositions(category) = {} THEN category
    ELSE SubSeq(category, Min(SlashPositions(category)) + 1, Len(category))

\* results.forEach body: benchmarkMap maps a benchmark name to [testNames,
\* modelData], modelData maps a source id to [source, scores]
RankingAddResult(benchmarkMap, result, source) ==
    LET benchmarkName == extractBenchmarkName(result.category)
        testName == extractTestName(result.category)
        entry == IF MapHas(benchmarkMap, benchmarkName)
                 THEN MapGet(benchmarkMap, benchmarkName)
                 ELSE [testNames |-> <<>>, modelData |-> <<>>]
        testNames == IF testName \in Range(entry.testNames) THEN entry.testNames
                     ELSE Append(entry.testNames, testName)
        modelEntry == IF MapHas(entry.modelData, source.id)
                      THEN MapGet(entry.modelData, source.id)
                      ELSE [source |-> source, scores |-> <<>>]
        scored == [modelEntry EXCEPT
                      !.scores = MapSet(@, testName, result.accuracy_mean)]
    IN  MapSet(benchmarkMap, benchmarkName,
               [testNames |-> testNames,
                modelData |-> MapSet(entry.modelData, source.id, scored)])

RECURSIVE RankingAddResults(_, _, _)
RankingAddResults(benchmarkMap, results, source) ==
    IF results = <<>> THEN benchmarkMap
    ELSE RankingAddResults(RankingAddResult(benchmarkMap, Head(results), source),
                           Tail(results), source)

RECURSIVE RankingAddSources(_, _)
RankingAddSources(benchmarkMap, srcs) ==
    IF srcs = <<>> THEN benchmarkMap
    ELSE RankingAddSources(
            RankingAddResults(benchmarkMap,
                              flattenDatasetResults(Head(srcs).rawData).results,
                              Head(srcs)),
            Tail(srcs))

\* The scores of the tests of allTests that the source has, in that order
RankingCells(allTests, scores) ==
    SelectSeq([i \in 1..Len(allTests) |->
                  <<allTests[i],
                    IF MapHas(scores, allTests[i]) THEN MapGet(scores, allTests[i])
                    ELSE -1>>],
              LAMBDA c : MapHas(scores, c[1]))

\* Mutant: a test the source has no score for counts as 0 in its average.
RankingAverageOverAllTests(allTests, scores) ==
    IF Len(allTests) > 0
    THEN Rat(SumInts(MapValues(RankingCells(allTests, scores))), Len(allTests))
    ELSE Rat(0, 1)

\* row.average = count > 0 ? totalScore / count : 0
RankingAverage(allTests, scores) ==
    LET cells == RankingCells(allTests, scores)
        totalScore == SumInts(MapValues(cells))
        count == Len(cells)
    IN  IF count > 0 THEN Rat(totalScore, count) ELSE Rat(0, 1)

\* One row of a benchmark: the fixed fields and the cells, one per test the
\* source has a score for
RankingRow(benchmarkName, allTests, modelEntry) ==
    [key |-> benchmarkName \o "-" \o modelEntry.source.id,
     modelName |-> modelEntry.source.modelName,
     displayName |-> modelEntry.source.modelName
        \o (IF modelEntry.source.variance # "default"
            THEN " (" \o modelEntry.source.variance \o ")" ELSE ""),
     isOfficial |-> modelEntry.source.isOfficial,
     timestamp |-> modelEntry.source.timestamp,
     average |-> RankingAverage(allTests, modelEntry.scores),
     cells |-> RankingCells(allTests, modelEntry.scores)]

RankingBenchmark(benchmarkName, benchmarkEntry) ==
    LET names == Range(benchmarkEntry.testNames)
        allTests == SortBy(benchmarkEntry.testNames,
                           { p \in names \X names : CodeUnitLess(p[1], p[2]) })
    IN  [benchmarkName |-> benchmarkName,
         models |-> [i \in 1..Len(benchmarkEntry.modelData) |->
                        RankingRow(benchmarkName, allTests,
                                   benchmarkEntry.modelData[i][2])],
         allTests |-> allTests]

benchmarkData(srcs) ==
    IF AnyThrows(srcs) THEN Thrown
    ELSE LET benchmarkMap == RankingAddSources(<<>>, srcs)
             benchmarks == [i \in 1..Len(benchmarkMap) |->
                              RankingBenchmark(benchmarkMap[i][1], benchmarkMap[i][2])]
             B == Range(benchmarks)
         IN  Returned(SortBy(benchmarks,
                             { p \in B \X B :
                                 LocaleLess(p[1].benchmarkName, p[2].benchmarkName) }))

(***************************************************************************)
(* Specification of the per-benchmark ranking                              *)
(***************************************************************************)
MaxRankingRecords == 3

RankingSlots ==
    << [id |-> "official-b1-202501010000", modelName |-> "m1", variance |-> "default",
        timestamp |-> "2025-01-01 00:00", isOfficial |-> TRUE],
       [id |-> "upload-2", modelName |-> "m1", variance |-> "default",
        timestamp |-> "t2", isOfficial |-> FALSE] >>

RankingRecords ==
    { <<"tmmluplus", "algebra_test.csv", 50>>,
      <<"tmmluplus", "algebra_test.csv", 90>>,
      <<"tmmluplus", "biology_test.csv", 50>>,
      <<"tmmluplus", "biology_test.csv", 90>>,
      <<"datasets/mmlu", "algebra_test.csv", 50>>,
      <<"datasets/mmlu", "algebra_test.csv", 90>> }

InitRanking ==
    /\ pc = "input"
    /\ sources \in SourceLists(RankingSlots, (1..Len(RankingSlots)) \X RankingRecords,
                               MaxRankingRecords)
    /\ out = NoValue
    /\ rawData = NoValue /\ flat = NoValue /\ filename = "" /\ subject = ""
    /\ deltas = <<>>
    /\ arg = NoValue
    /\ config = NoValue
    /\ loading = FALSE
    /\ selectedSourceIds = <<>>
    /\ viewMode = "dashboard"
    /\ loadsStarted = 0
    /\ loadsFinished = 0
    /\ uploadCount = 0
    /\ dataSchema = {}
    /\ uploads = <<>>
    /\ expandedCategory = ""

ComputeBenchmarkData ==
    /\ pc = "input"
    /\ out' = benchmarkData(sources)
    /\ pc' = "benchmarkData"
    /\ UNCHANGED <<rawData, flat, filename, subject, sources, deltas, arg, config, loading, selectedSourceIds, viewMode, loadsStarted, loadsFinished, uploadCount, dataSchema, uploads, expandedCategory>>

NextRanking == ComputeBenchmarkData

SpecRanking == InitRanking /\ [][NextRanking]_vars

\* The tests of benchmark b that source i has a score for
TestsOf(R, i, b) ==
    { extractTestName(R[i][j].category) :
        j \in { k \in 1..Len(R[i]) : extractBenchmarkName(R[i][k].category) = b } }

\* The score of source i for test t of benchmark b: that of its last such record
ScoreOf(R, i, b, t) ==
    LET js == { j \in 1..Len(R[i]) : /\ extractBenchmarkName(R[i][j].category) = b
                                     /\ extractTestName(R[i][j].category) = t }
    IN  R[i][Max(js)].accuracy_mean

\* The sum of the values of a function with a finite domain
RECURSIVE SumOver(_)
SumOver(f) ==
    IF DOMAIN f = {} THEN 0
    ELSE LET x == CHOOSE y \in DOMAIN f : TRUE
         IN  f[x] + SumOver([y \in DOMAIN f \ {x} |-> f[y]])

\* C10: in the per-benchmark ranking every source with a score in the benchmark
\* has one row, and the row's average is the mean of its scores over exactly
\* the tests it has a score for in that benchmark; the tests only other
\* sources have are left out of it, not counted as zero.
C10_RankingAverageOverOwnTests ==
    pc = "benchmarkData" =>
      LET R == FlatRecords
      IN
        /\ ~out.threw
        /\ \A k \in 1..Len(out.value) :
             LET b == out.value[k].benchmarkName
                 having == { i \in 1..Len(sources) : TestsOf(R, i, b) # {} }
             IN  /\ Len(out.value[k].models) = Cardinality(having)
                 /\ \A i \in having :
                      \E m \in 1..Len(out.value[k].models) :
                        LET row == out.value[k].models[m]
                            own == TestsOf(R, i, b)
                            score == [t \in own |-> ScoreOf(R, i, b, t)]
                        IN  /\ row.key = b \o "-" \o sources[i].id
                            /\ Range(MapKeys(row.cells)) = own
                            /\ row.average = Rat(SumOver(score), Cardinality(own))

\* A benchmark with two tests of which one source has both and the other only
\* one: the second source's average is its single score
C10_Witness ==
    /\ pc = "benchmarkData"
    /\ ~out.threw
    /\ Len(sources) = 2
    /\ Len(out.value) = 1
    /\ out.value[1].benchmarkName = "tmmluplus"
    /\ out.value[1].allTests = <<"algebra", "biology">>
    /\ Len(out.value[1].models) = 2
    /\ out.value[1].models[1].cells = << <<"algebra", 50>>, <<"biology", 90>> >>
    /\ out.value[1].models[1].average = Rat(70, 1)
    /\ out.value[1].models[2].cells = << <<"biology", 90>> >>
    /\ out.value[1].models[2].average = Rat(90, 1)

(***************************************************************************)
(* groupByCategory and CategoryDashboard.categoryStats                     *)
(***************************************************************************)
RECURSIVE groupByCategory(_, _)
groupByCategory(results, grouped) ==
    IF results = <<>> THEN grouped
    ELSE LET category == categorizeTest(Head(results).category)
             group == IF MapHas(grouped, category) THEN MapGet(grouped, category)
                      ELSE <<>>
         IN  groupByCategory(Tail(results),
                             MapSet(grouped, category, Append(group, Head(results))))

\* rawData?.dataset_results || {}
DatasetResultsOrEmpty(raw) ==
    IF Nullish(raw) THEN JObj(<<>>)
    ELSE IF Truthy(Get(raw, "dataset_results")) THEN Get(raw, "dataset_results")
    ELSE JObj(<<>>)

\* dataset.results.find(r => r.file === file)
FindByFile(list, file) ==
    LET hits == { i \in 1..Len(list) : Get(list[i], "file") = JStr(file) }
    IN  IF hits = {} THEN Undefined ELSE list[Min(hits)]

\* The accuracies of the runs of the entry found in dataset for file, when the
\* entry has a non-empty array of them; <<>> otherwise
RunsIn(dataset, file) ==
    IF Nullish(dataset) THEN <<>>
    ELSE IF ~(Truthy(Get(dataset, "results")) /\ IsArray(Get(dataset, "results")))
    THEN <<>>
    ELSE LET testResult == FindByFile(Get(dataset, "results").a, file)
         IN  IF Nullish(testResult) THEN <<>>
             ELSE IF ~Truthy(Get(testResult, "individual_runs")) THEN <<>>
             ELSE LET accuracies == Get(Get(testResult, "individual_runs"), "accuracies")
                  IN  IF Truthy(accuracies) /\ IsArray(accuracies)
                      THEN [i \in 1..Len(accuracies.a) |-> accuracies.a[i].n]
                      ELSE <<>>

\* for (const [, datasetValue] of Object.entries(datasetResults)): the runs of
\* the first dataset that has some for the file
RECURSIVE FindRuns(_, _)
FindRuns(entries, file) ==
    IF entries = <<>> THEN <<>>
    ELSE IF RunsIn(Head(entries)[2], file) # <<>> THEN RunsIn(Head(entries)[2], file)
    ELSE FindRuns(Tail(entries), file)

\* The index of the test of tests with the key k, 0 when there is none
TestIndex(tests, k, byFullPath) ==
    LET hits == { i \in 1..Len(tests) :
                    (IF byFullPath THEN tests[i].fullPath ELSE tests[i].testName) = k }
    IN  IF hits = {} THEN 0 ELSE Min(hits)

\* result.category.split('/').pop() || result.category
TestNameOf(category) ==
    IF LastSegment(category) = "" THEN category ELSE LastSegment(category)

\* result.category.split('/')[0] || 'unknown'
DatasetNameOf(category) ==
    IF FirstSegment(category) = "" THEN "unknown" ELSE FirstSegment(category)

EmptyCategoryStats(categoryName) ==
    [name |-> categoryName, testCount |-> 0, tests |-> <<>>,
     avgPerModel |-> <<>>, minPerModel |-> <<>>, maxPerModel |-> <<>>,
     overallAvg |-> Rat(0, 1), overallMin |-> 1, overallMax |-> 0,
     variance |-> Rat(0, 1)]

\* categoryResults.forEach body: find or push the test entry, then
\* testEntry.values.set(source.modelName, {avg, min, max}).  The earlier
\* variant (byFullPath) finds the entry by fullPath and has no runs to read.
StatsAddResult(catData, result, source, byFullPath) ==
    LET key == IF byFullPath THEN result.category ELSE TestNameOf(result.category)
        at == TestIndex(catData.tests, key, byFullPath)
        tests == IF at # 0 THEN catData.tests
                 ELSE Append(catData.tests,
                             [testName |-> TestNameOf(result.category),
                              fullPath |-> result.category,
                              dataset |-> DatasetNameOf(result.category),
                              values |-> <<>>])
        k == IF at # 0 THEN at ELSE Len(tests)
        runs == IF byFullPath THEN <<>>
                ELSE FindRuns(ObjectEntries(DatasetResultsOrEmpty(source.rawData)),
                              result.file)
        value == [avg |-> result.accuracy_mean,
                  min |-> IF runs = <<>> THEN result.accuracy_mean ELSE Min(Range(runs)),
                  max |-> IF runs = <<>> THEN result.accuracy_mean ELSE Max(Range(runs))]
    IN  [catData EXCEPT
            !.tests = [tests EXCEPT ![k].values = MapSet(@, source.modelName, value)]]

RECURSIVE StatsAddResults(_, _, _, _)
StatsAddResults(catData, results, source, byFullPath) ==
    IF results = <<>> THEN catData
    ELSE StatsAddResults(StatsAddResult(catData, Head(results), source, byFullPath),
                         Tail(results), source, byFullPath)

\* for (const [categoryName, categoryResults] of Object.entries(grouped))
RECURSIVE StatsAddGroups(_, _, _, _)
StatsAddGroups(categories, grouped, source, byFullPath) ==
    IF grouped = <<>> THEN categories
    ELSE LET categoryName == Head(grouped)[1]
             catData == IF MapHas(categories, categoryName)
                        THEN MapGet(categories, categoryName)
                        ELSE EmptyCategoryStats(categoryName)
         IN  StatsAddGroups(
                MapSet(categories, categoryName,
                       StatsAddResults(catData, Head(grouped)[2], source, byFullPath)),
                Tail(grouped), source, byFullPath)

\* sources.forEach: the first pass
RECURSIVE StatsAddSources(_, _, _)
StatsAddSources(categories, srcs, byFullPath) ==
    IF srcs = <<>> THEN categories
    ELSE StatsAddSources(
            StatsAddGroups(categories,
                           groupByCategory(flattenDatasetResults(Head(srcs).rawData).results,
                                           <<>>),
                           Head(srcs), byFullPath),
            Tail(srcs), byFullPath)

\* The avg of the values the tests hold under modelName, in test order
AccuraciesOf(tests, modelName) ==
    LET having == SelectSeq(tests, LAMBDA test : MapHas(test.values, modelName))
    IN  [i \in 1..Len(having) |-> MapGet(having[i].values, modelName).avg]

\* d3.mean of a non-empty sequence of numbers
MeanOf(accuracies) == Rat(SumInts(accuracies), Len(accuracies))

\* sources.forEach of the second pass: avg, min and max under source.modelName
RECURSIVE StatsPerModel(_, _)
StatsPerModel(catData, srcs) ==
    IF srcs = <<>> THEN catData
    ELSE LET modelName == Head(srcs).modelName
             accuracies == AccuraciesOf(catData.tests, modelName)
         IN  StatsPerModel(
                IF Len(accuracies) > 0
                THEN [catData EXCEPT
                        !.avgPerModel = MapSet(@, modelName, MeanOf(accuracies)),
                        !.minPerModel = MapSet(@, modelName, Min(Range(accuracies))),
                        !.maxPerModel = MapSet(@, modelName, Max(Range(accuracies)))]
                ELSE catData,
                Tail(srcs))

\* allAvgs.reduce((sum, val) => sum + Math.pow(val - mean, 2), 0) / allAvgs.length
VarianceOf(allAvgs, mean) ==
    RatDivInt(SumRats([i \in 1..Len(allAvgs) |->
                          RatMul(RatSub(allAvgs[i], mean), RatSub(allAvgs[i], mean))]),
              Len(allAvgs))

\* The overall statistics across the models
StatsOverall(catData) ==
    LET allAvgs == MapValues(catData.avgPerModel)
        mean == RatDivInt(SumRats(allAvgs), Len(allAvgs))
    IN  IF Len(allAvgs) > 0
        THEN [catData EXCEPT
                !.overallAvg = mean,
                !.overallMin = Min(Range(MapValues(catData.minPerModel))),
                !.overallMax = Max(Range(MapValues(catData.maxPerModel))),
                !.variance = VarianceOf(allAvgs, mean)]
        ELSE catData

\* categories.forEach: the second pass
StatsOfCategory(catData, srcs) ==
    StatsOverall(StatsPerModel([catData EXCEPT !.testCount = Len(catData.tests)], srcs))

StatsOfCategories(srcs, byFullPath) ==
    LET categories == MapValues(StatsAddSources(<<>>, srcs, byFullPath))
    IN  [i \in 1..Len(categories) |-> StatsOfCategory(categories[i], srcs)]

\* The current categoryStats: the categories in order of first appearance
categoryStats(srcs) ==
    IF AnyThrows(srcs) THEN Thrown
    ELSE Returned(StatsOfCategories(srcs, FALSE))

\* The comparators of the sort modes, as the pairs of C they put in order
VarianceDesc(C) == { p \in C \X C : RatLess(p[2].variance, p[1].variance) }
AvgDesc(C) == { p \in C \X C : RatLess(p[2].overallAvg, p[1].overallAvg) }
AvgAsc(C) == { p \in C \X C : RatLess(p[1].overallAvg, p[2].overallAvg) }
NameAsc(C) == { p \in C \X C : LocaleLess(p[1].name, p[2].name) }

SortModes == {"variance", "avg-desc", "avg-asc", "name"}

\* The earlier categoryStats: tests found by fullPath, and the categories
\* sorted by sortMode
categoryStatsEarlier(srcs, sortMode) ==
    IF AnyThrows(srcs) THEN Thrown
    ELSE LET sortedCategories == StatsOfCategories(srcs, TRUE)
             C == Range(sortedCategories)
         IN  Returned(CASE sortMode = "variance" -> SortBy(sortedCategories, VarianceDesc(C))
                        [] sortMode = "avg-desc" -> SortBy(sortedCategories, AvgDesc(C))
                        [] sortMode = "avg-asc" -> SortBy(sortedCategories, AvgAsc(C))
                        [] sortMode = "name" -> SortBy(sortedCategories, NameAsc(C))
                        [] OTHER -> sortedCategories)

(***************************************************************************)
(* Specification of the category aggregation                               *)
(***************************************************************************)
MaxAggregateRecords == 3

\* A model, another model, and a named variance of the first model
AggregateSlots ==
    << [id |-> "upload-1", modelName |-> "m1", variance |-> "default",
        timestamp |-> "t1", isOfficial |-> FALSE],
       [id |-> "official-b2-202501010000", modelName |-> "m2", variance |-> "default",
        timestamp |-> "2025-01-01 00:00", isOfficial |-> TRUE],
       [id |-> "upload-3", modelName |-> "m1", variance |-> "v2",
        timestamp |-> "t3", isOfficial |-> FALSE] >>

AggregateRecords ==
    { <<"datasets/mmlu", "algebra_test.csv", 50>>,
      <<"datasets/mmlu", "algebra_test.csv", 90>>,
      <<"datasets/mmlu", "algebra_test.csv", 50, <<40, 60>> >>,
      <<"tmmluplus", "algebra_test.csv", 50>>,
      <<"datasets/mmlu", "biology.json", 90>> }

InitAggregate ==
    /\ pc = "input"
    /\ sources \in SourceLists(AggregateSlots,
                               (1..Len(AggregateSlots)) \X AggregateRecords,
                               MaxAggregateRecords)
    /\ out = NoValue
    /\ rawData = NoValue /\ flat = NoValue /\ filename = "" /\ subject = ""
    /\ deltas = <<>>
    /\ arg = NoValue
    /\ config = NoValue
    /\ loading = FALSE
    /\ selectedSourceIds = <<>>
    /\ viewMode = "dashboard"
    /\ loadsStarted = 0
    /\ loadsFinished = 0
    /\ uploadCount = 0
    /\ dataSchema = {}
    /\ uploads = <<>>
    /\ expandedCategory = ""

ComputeCategoryStats ==
    /\ pc = "input"
    /\ out' = categoryStats(sources)
    /\ pc' = "categoryStats"
    /\ UNCHANGED <<rawData, flat, filename, subject, sources, deltas, arg, config, loading, selectedSourceIds, viewMode, loadsStarted, loadsFinished, uploadCount, dataSchema, uploads, expandedCategory>>

ComputeCategoryStatsEarlier ==
    /\ pc = "input"
    /\ \E sortMode \in SortModes : out' = categoryStatsEarlier(sources, sortMode)
    /\ pc' = "categoryStatsEarlier"
    /\ UNCHANGED <<rawData, flat, filename, subject, sources, deltas, arg, config, loading, selectedSourceIds, viewMode, loadsStarted, loadsFinished, uploadCount, dataSchema, uploads, expandedCategory>>

NextAggregate == ComputeCategoryStats \/ ComputeCategoryStatsEarlier

SpecAggregate == InitAggregate /\ [][NextAggregate]_vars

Aggregated == pc \in {"categoryStats", "categoryStatsEarlier"}

\* The records of source i classified into the subject category c
OwnRecords(R, i, c) == { j \in 1..Len(R[i]) : categorizeTest(R[i][j].category) = c }

OwnAccuracies(R, i, c) == [j \in OwnRecords(R, i, c) |-> R[i][j].accuracy_mean]

\* The mean of accuracy_mean over the records of source i in category c
OwnAvg(R, i, c) == Rat(SumOver(OwnAccuracies(R, i, c)), Cardinality(OwnRecords(R, i, c)))

\* The sources with a record in category c
Contributing(R, c) == { i \in 1..Len(sources) : OwnRecords(R, i, c) # {} }

RECURSIVE SumRatsOver(_)
SumRatsOver(f) ==
    IF DOMAIN f = {} THEN Rat(0, 1)
    ELSE LET x == CHOOSE y \in DOMAIN f : TRUE
         IN  RatAdd(f[x], SumRatsOver([y \in DOMAIN f \ {x} |-> f[y]]))

\* C1: for every subject category the aggregation emits, overallAvg is the
\* mean of the per-source averages of the category, one value per source
\* that has a record in it, each the mean of that source's own records.
C1_OverallAvgIsMeanOfSourceAverages ==
    Aggregated =>
      LET R == FlatRecords
      IN
        /\ ~out.threw
        /\ \A k \in 1..Len(out.value) :
             LET c == out.value[k].name
                 S == Contributing(R, c)
             IN  /\ S # {}
                 /\ out.value[k].overallAvg =
                      RatDivInt(SumRatsOver([i \in S |-> OwnAvg(R, i, c)]), Cardinality(S))

\* C2: for every source and every subject category in which the source has a
\* flattened record, the aggregation holds for that source an average, a
\* minimum and a maximum that are the mean, the least and the greatest
\* accuracy_mean of exactly the source's own records in the category.
C2_PerSourceStatsOverOwnRecords ==
    Aggregated =>
      LET R == FlatRecords
      IN
        /\ ~out.threw
        /\ \A i \in 1..Len(sources) : \A c \in SubjectCategories :
             OwnRecords(R, i, c) # {} =>
               \E k \in 1..Len(out.value) :
                 LET catData == out.value[k]
                     m == sources[i].modelName
                     own == { R[i][j].accuracy_mean : j \in OwnRecords(R, i, c) }
                 IN  /\ catData.name = c
                     /\ MapHas(catData.avgPerModel, m)
                     /\ MapGet(catData.avgPerModel, m) = OwnAvg(R, i, c)
                     /\ MapGet(catData.minPerModel, m) = Min(own)
                     /\ MapGet(catData.maxPerModel, m) = Max(own)

(***************************************************************************)
(* filterDeltasByThreshold and sortDeltas                                  *)
(***************************************************************************)
\* Mutant: a row whose absDelta equals the threshold is dropped.
filterDeltasAboveThreshold(rows, threshold) ==
    SelectSeq(rows, LAMBDA d : d.absDelta > threshold)

\* Mutant: the rows before the first one that reaches the threshold are
\* dropped, and every row after it is kept.
RECURSIVE filterDeltasFromFirstAbove(_, _)
filterDeltasFromFirstAbove(rows, threshold) ==
    IF rows = <<>> \/ Head(rows).absDelta >= threshold THEN rows
    ELSE filterDeltasFromFirstAbove(Tail(rows), threshold)

\* deltas.filter((d) => d.absDelta >= threshold)
filterDeltasByThreshold(rows, threshold) ==
    SelectSeq(rows, LAMBDA d : d.absDelta >= threshold)

DeltaSortModes == {"abs-desc", "delta-desc", "delta-asc", "category"}

\* [...deltas] sorted by the comparator of sortMode; a comparator that returns
\* a negative number for (a, b) puts a before b
sortDeltas(rows, sortMode) ==
    LET D == Range(rows)
    IN  CASE sortMode = "abs-desc" ->
               SortBy(rows, { p \in D \X D : p[2].absDelta - p[1].absDelta < 0 })
          [] sortMode = "delta-desc" ->
               SortBy(rows, { p \in D \X D : p[2].delta - p[1].delta < 0 })
          [] sortMode = "delta-asc" ->
               SortBy(rows, { p \in D \X D : p[1].delta - p[2].delta < 0 })
          [] sortMode = "category" ->
               SortBy(rows, { p \in D \X D : LocaleLess(p[1].category, p[2].category) })
          [] OTHER -> rows

(***************************************************************************)
(* Specification of the delta table operations                             *)
(***************************************************************************)
MaxDeltaRows == 3

\* Rows as calculateDeltas builds them: baseline 60 against candidates 45, 75
\* and 90 (deltas -15, 15 and 30) of two categories and two candidates
DeltaRowValues ==
    { DeltaRow([category |-> c, accuracy_mean |-> a], 60, l) :
        c \in {"mmlu/a", "mmlu/b"}, a \in {45, 75, 90}, l \in {"m2 @ t2", "m3 @ t3"} }

Thresholds == {0, 15, 20}

InitDeltaTable ==
    /\ pc = "input"
    /\ deltas \in SeqsUpTo(DeltaRowValues, MaxDeltaRows)
    /\ arg = NoValue
    /\ out = NoValue
    /\ rawData = NoValue /\ flat = NoValue /\ filename = "" /\ subject = ""
    /\ sources = <<>>
    /\ config = NoValue
    /\ loading = FALSE
    /\ selectedSourceIds = <<>>
    /\ viewMode = "dashboard"
    /\ loadsStarted = 0
    /\ loadsFinished = 0
    /\ uploadCount = 0
    /\ dataSchema = {}
    /\ uploads = <<>>
    /\ expandedCategory = ""

FilterDeltas ==
    /\ pc = "input"
    /\ \E threshold \in Thresholds :
         /\ arg' = JNum(threshold)
         /\ out' = filterDeltasByThreshold(deltas, threshold)
    /\ pc' = "filterDeltasByThreshold"
    /\ UNCHANGED <<rawData, flat, filename, subject, sources, deltas, config, loading, selectedSourceIds, viewMode, loadsStarted, loadsFinished, uploadCount, dataSchema, uploads, expandedCategory>>

SortDeltas ==
    /\ pc = "input"
    /\ \E sortMode \in DeltaSortModes :
         /\ arg' = JStr(sortMode)
         /\ out' = sortDeltas(deltas, sortMode)
    /\ pc' = "sortDeltas"
    /\ UNCHANGED <<rawData, flat, filename, subject, sources, deltas, config, loading, selectedSourceIds, viewMode, loadsStarted, loadsFinished, uploadCount, dataSchema, uploads, expandedCategory>>

NextDeltaTable == FilterDeltas \/ SortDeltas

SpecDeltaTable == InitDeltaTable /\ [][NextDeltaTable]_vars

\* The positions of rows kept by the threshold t, in increasing order
RECURSIVE KeptPositions(_, _, _)
KeptPositions(rows, t, i) ==
    IF i > Len(rows) THEN <<>>
    ELSE (IF rows[i].absDelta >= t THEN <<i>> ELSE <<>>) \o KeptPositions(rows, t, i + 1)

\* C12: filterDeltasByThreshold(rows, t) returns exactly the rows whose
\* absDelta >= t, in their input order; a row whose absDelta equals t is kept.
C12_ThresholdFilterInclusive ==
    pc = "filterDeltasByThreshold" =>
      LET kept == KeptPositions(deltas, arg.n, 1)
      IN  /\ Len(out) = Len(kept)
          /\ \A k \in 1..Len(kept) : out[k] = deltas[kept[k]]
          /\ \A i \in 1..Len(deltas) :
               deltas[i].absDelta = arg.n => \E k \in 1..Len(kept) : kept[k] = i

\* Threshold 15 over rows with absDelta 15, 30, 15: all three are kept
C12_Witness ==
    /\ pc = "filterDeltasByThreshold"
    /\ arg = JNum(15)
    /\ Len(deltas) = 3
    /\ deltas[1].delta = -15 /\ deltas[2].delta = 30 /\ deltas[3].delta = 15
    /\ out = deltas

\* The key a sort mode orders by, and whether the order is descending
SortKey(row, sortMode) ==
    CASE sortMode = "abs-desc" -> row.absDelta
      [] sortMode = "delta-desc" -> row.delta
      [] sortMode = "delta-asc" -> row.delta
      [] sortMode = "category" -> row.category

InOrder(a, b, sortMode) ==
    CASE sortMode = "abs-desc" -> a.absDelta >= b.absDelta
      [] sortMode = "delta-desc" -> a.delta >= b.delta
      [] sortMode = "delta-asc" -> a.delta <= b.delta
      [] sortMode = "category" -> ~CodeUnitLess(b.category, a.category)

\* The rows of s whose key under sortMode is that of row, in the order of s
Ties(s, row, sortMode) ==
    SelectSeq(s, LAMBDA d : SortKey(d, sortMode) = SortKey(row, sortMode))

\* C13: sortDeltas returns a permutation of its input ordered by the mode
\* (abs-desc: absDelta non-increasing; delta-desc: delta non-increasing;
\* delta-asc: delta non-decreasing; category: category ascending), and the rows
\* that tie under the mode keep their relative input order.
C13_SortDeltasStable ==
    pc = "sortDeltas" =>
      /\ Len(out) = Len(deltas)
      /\ \A k \in 1..(Len(out) - 1) : InOrder(out[k], out[k + 1], arg.s)
      /\ \A i \in 1..Len(deltas) :
           Ties(out, deltas[i], arg.s) = Ties(deltas, deltas[i], arg.s)

\* abs-desc over deltas 15, 30, -15: 30 comes first, and 15 stays before -15
\* although they tie
C13_Witness ==
    /\ pc = "sortDeltas"
    /\ arg = JStr("abs-desc")
    /\ Len(deltas) = 3
    /\ deltas[1].delta = 15 /\ deltas[2].delta = 30 /\ deltas[3].delta = -15
    /\ out = <<deltas[2], deltas[1], deltas[3]>>

(***************************************************************************)
(* Specification of the aggregations on empty and disjoint inputs: the     *)
(* first source of the list is the baseline of calculateDeltas             *)
(***************************************************************************)
MaxEmptyRecords == 3

\* The baseline holds categories a and b, the candidate b and c; either may
\* hold a null in a results list
EmptyPlacements ==
    { <<1, <<"datasets/mmlu", "a_test.csv", 60>> >>,
      <<1, <<"datasets/mmlu", "b_test.csv", 60>> >>,
      <<1, <<"datasets/mmlu">> >>,
      <<2, <<"datasets/mmlu", "b_test.csv", 75>> >>,
      <<2, <<"datasets/mmlu", "c_test.csv", 75>> >>,
      <<2, <<"datasets/mmlu">> >> }

InitEmptyInputs ==
    /\ pc = "input"
    /\ sources \in SourceLists(DeltaSlots, EmptyPlacements, MaxEmptyRecords)
    /\ out = NoValue
    /\ rawData = NoValue /\ flat = NoValue /\ filename = "" /\ subject = ""
    /\ deltas = <<>>
    /\ arg = NoValue
    /\ config = NoValue
    /\ loading = FALSE
    /\ selectedSourceIds = <<>>
    /\ viewMode = "dashboard"
    /\ loadsStarted = 0
    /\ loadsFinished = 0
    /\ uploadCount = 0
    /\ dataSchema = {}
    /\ uploads = <<>>
    /\ expandedCategory = ""

NextEmptyInputs ==
    \/ BuildPivot
    \/ ComputeCategoryStats
    \/ ComputeCategoryStatsEarlier
    \/ CalculateDeltas

SpecEmptyInputs == InitEmptyInputs /\ [][NextEmptyInputs]_vars

\* The categories of the entries of a document that hold a file and an
\* accuracy, whether or not flattening the document raises
CategoriesOfDocument(d) ==
    LET datasets == ObjectEntries(Get(d, "dataset_results"))
    IN  UNION { { normalizeDatasetKey(datasets[i][1]) \o "/" \o extractCategory(e[1]) :
                    e \in Range(ContributingEntries(Get(datasets[i][2], "results").a)) }
                : i \in 1..Len(datasets) }

NoSharedCategory ==
    \A i \in 2..Len(sources) :
        CategoriesOfDocument(sources[i].rawData)
            \cap CategoriesOfDocument(sources[1].rawData) = {}

\* C14: given zero sources the category aggregation and buildPivotTable return
\* an empty collection, and calculateDeltas given zero candidates, or
\* candidates that share no category with the baseline, returns an empty list;
\* none of them raises.
C14_EmptyInputsGiveEmptyResults ==
    /\ pc \in {"buildPivotTable", "categoryStats", "categoryStatsEarlier"}
       /\ sources = <<>>
          => out = Returned(<<>>)
    /\ pc = "calculateDeltas" /\ (Len(sources) = 1 \/ NoSharedCategory)
          => out = Returned(<<>>)

(***************************************************************************)
(* Numbers and their display: a number is a rational, or NaN or Infinity   *)
(* where a division by zero produced it                                    *)
(***************************************************************************)
NaN == [nan |-> TRUE]
Infinity == [infinite |-> TRUE]
IsFinite(x) == x \notin {NaN, Infinity}

\* x / n for a rational x and a count n >= 0
Divide(x, n) ==
    IF n = 0 THEN (IF x.num = 0 THEN NaN ELSE Infinity) ELSE RatDivInt(x, n)

\* x + y
Plus(x, y) == IF IsFinite(x) /\ IsFinite(y) THEN RatAdd(x, y) ELSE NaN

\* The decimal digits of n >= 0 in at least k places
RECURSIVE Digits(_, _)
Digits(n, k) ==
    IF k <= 1 /\ n < 10 THEN ToString(n)
    ELSE Digits(n \div 10, k - 1) \o ToString(n % 10)

\* x.toFixed(places) for x = r / 100 * 10^shift, r a rational in hundredths:
\* the nearest multiple of 10^-places, the larger one of two equally near
ToFixed(r, shift, places) ==
    LET scale == IF shift + places = 4 THEN 100 ELSE 1
        a == Abs(r.num) * scale
        q == (2 * a + r.den) \div (2 * r.den)
        unit == IF places = 4 THEN 10000 ELSE 100
    IN  (IF r.num < 0 THEN "-" ELSE "")
        \o Digits(q \div unit, 1) \o "." \o Digits(q % unit, places)

\* scaleValue and formatValue: scale0100 ? (value * 100).toFixed(2)
\*                                        : value.toFixed(4)
formatValue(value, scale0100) ==
    IF value = NaN THEN "NaN"
    ELSE IF value = Infinity THEN "Infinity"
    ELSE IF scale0100 THEN ToFixed(value, 2, 2) ELSE ToFixed(value, 0, 4)

(***************************************************************************)
(* The averaging steps: calculateCategoryMean, the header average of a     *)
(* ranking table, candidateSummaryToCSV                                    *)
(***************************************************************************)
\* The numeric cells of a pivot row whose cells hold JSON values: the values
\* of the keys other than 'category' that are numbers
NumericCells(row) ==
    LET cells == SelectSeq(row.cells,
                           LAMBDA c : c[1] # "category" /\ TypeOf(c[2]) = "number")
    IN  [i \in 1..Len(cells) |-> cells[i][2].n]

\* Mutant: the mean is taken without the guard on the empty list.
calculateCategoryMeanUnguarded(row) ==
    Divide(Rat(SumInts(NumericCells(row)), 1), Len(NumericCells(row)))

calculateCategoryMean(row) ==
    LET values == NumericCells(row)
    IN  IF Len(values) = 0 THEN Rat(0, 1)
        ELSE Divide(Rat(SumInts(values), 1), Len(values))

\* sortedModels.length > 0 ? sum of model.average / sortedModels.length : 0
HeaderAverage(sortedModels) ==
    IF Len(sortedModels) > 0
    THEN Divide(SumRats([i \in 1..Len(sortedModels) |-> sortedModels[i].average]),
                Len(sortedModels))
    ELSE Rat(0, 1)

\* value.includes(',') || value.includes('"') || value.includes('\n') ?
\* `"${value.replace(/"/g, '""')}"` : value
RECURSIVE DoubleQuotes(_)
DoubleQuotes(s) ==
    IF s = "" THEN ""
    ELSE (IF SubSeq(s, 1, 1) = "\"" THEN "\"\"" ELSE SubSeq(s, 1, 1))
         \o DoubleQuotes(SubSeq(s, 2, Len(s)))

escapeCSVField(value) ==
    IF Includes(value, ",") \/ Includes(value, "\"") \/ Includes(value, "\n")
    THEN "\"" \o DoubleQuotes(value) \o "\""
    ELSE value

\* items.join(sep)
RECURSIVE Join(_, _)
Join(items, sep) ==
    IF items = <<>> THEN ""
    ELSE IF Len(items) = 1 THEN items[1]
    ELSE items[1] \o sep \o Join(Tail(items), sep)

\* The rows grouped by candidateLabel, the groups in order of first appearance
RECURSIVE GroupByCandidate(_, _)
GroupByCandidate(data, candidateMap) ==
    IF data = <<>> THEN candidateMap
    ELSE LET row == Head(data)
             existing == IF MapHas(candidateMap, row.candidateLabel)
                         THEN MapGet(candidateMap, row.candidateLabel) ELSE <<>>
         IN  GroupByCandidate(Tail(data),
                              MapSet(candidateMap, row.candidateLabel,
                                     Append(existing, row)))

\* rows.reduce((sum, r) => sum + r.delta, 0) / rows.length
MeanDelta(rows) == Divide(Rat(SumInts([i \in 1..Len(rows) |-> rows[i].delta]), 1), Len(rows))
MeanAbsDelta(rows) ==
    Divide(Rat(SumInts([i \in 1..Len(rows) |-> rows[i].absDelta]), 1), Len(rows))

candidateSummaryToCSV(data, scale0100) ==
    IF Len(data) = 0 THEN ""
    ELSE LET candidateMap == GroupByCandidate(data, <<>>)
             header == Join(<<escapeCSVField("Candidate"), escapeCSVField("Mean Delta"),
                              escapeCSVField("Mean Abs Delta"), escapeCSVField("Count")>>,
                            ",")
             lines == [i \in 1..Len(candidateMap) |->
                         Join(<<escapeCSVField(candidateMap[i][1]),
                                formatValue(MeanDelta(candidateMap[i][2]), scale0100),
                                formatValue(MeanAbsDelta(candidateMap[i][2]), scale0100),
                                ToString(Len(candidateMap[i][2]))>>, ",")]
         IN  Join(<<header>> \o lines, "\n")

(***************************************************************************)
(* Specification of the averaging steps                                    *)
(***************************************************************************)
MaxCells == 2

\* Pivot rows with up to MaxCells cells, a cell a number or a string
PivotRowValues ==
    { [category |-> "mmlu/a", cells |-> c] :
        c \in { s \in SeqsUpTo({"m1 @ t1", "m2 @ t2"} \X {JNum(50), JNum(90), JStr("n/a")},
                               MaxCells) :
                  \A i, j \in 1..Len(s) : i # j => s[i][1] # s[j][1] } }

\* The sorted test names of a benchmark and the scores of one model
RankingAverageInputs ==
    { [allTests |-> a, scores |-> s] :
        a \in { <<>>, <<"algebra">>, <<"algebra", "biology">> },
        s \in { <<>>, << <<"algebra", 50>> >>, << <<"biology", 90>> >>,
                << <<"algebra", 50>>, <<"biology", 90>> >>,
                << <<"biology", 90>>, <<"algebra", 90>> >> } }

\* The rows of a ranking table, by their averages
HeaderAverageInputs ==
    { [models |-> m] :
        m \in SeqsUpTo({ [average |-> Rat(0, 1)], [average |-> Rat(50, 1)],
                         [average |-> Rat(145, 2)] }, MaxCells) }

InitAverages ==
    /\ pc = "input"
    /\ \/ arg \in PivotRowValues \cup RankingAverageInputs \cup HeaderAverageInputs
          /\ deltas = <<>>
       \/ arg \in {JBool(FALSE), JBool(TRUE)}
          /\ deltas \in SeqsUpTo(DeltaRowValues, MaxDeltaRows)
    /\ out = NoValue
    /\ rawData = NoValue /\ flat = NoValue /\ filename = "" /\ subject = ""
    /\ sources = <<>>
    /\ config = NoValue
    /\ loading = FALSE
    /\ selectedSourceIds = <<>>
    /\ viewMode = "dashboard"
    /\ loadsStarted = 0
    /\ loadsFinished = 0
    /\ uploadCount = 0
    /\ dataSchema = {}
    /\ uploads = <<>>
    /\ expandedCategory = ""

CalculateCategoryMean ==
    /\ pc = "input"
    /\ "cells" \in DOMAIN arg
    /\ out' = calculateCategoryMean(arg)
    /\ pc' = "calculateCategoryMean"
    /\ UNCHANGED <<rawData, flat, filename, subject, sources, deltas, arg, config, loading, selectedSourceIds, viewMode, loadsStarted, loadsFinished, uploadCount, dataSchema, uploads, expandedCategory>>

ComputeRankingAverage ==
    /\ pc = "input"
    /\ "scores" \in DOMAIN arg
    /\ out' = RankingAverage(arg.allTests, arg.scores)
    /\ pc' = "RankingAverage"
    /\ UNCHANGED <<rawData, flat, filename, subject, sources, deltas, arg, config, loading, selectedSourceIds, viewMode, loadsStarted, loadsFinished, uploadCount, dataSchema, uploads, expandedCategory>>

ComputeHeaderAverage ==
    /\ pc = "input"
    /\ "models" \in DOMAIN arg
    /\ out' = HeaderAverage(arg.models)
    /\ pc' = "HeaderAverage"
    /\ UNCHANGED <<rawData, flat, filename, subject, sources, deltas, arg, config, loading, selectedSourceIds, viewMode, loadsStarted, loadsFinished, uploadCount, dataSchema, uploads, expandedCategory>>

CandidateSummaryToCSV ==
    /\ pc = "input"
    /\ "b" \in DOMAIN arg
    /\ out' = candidateSummaryToCSV(deltas, arg.b)
    /\ pc' = "candidateSummaryToCSV"
    /\ UNCHANGED <<rawData, flat, filename, subject, sources, deltas, arg, config, loading, selectedSourceIds, viewMode, loadsStarted, loadsFinished, uploadCount, dataSchema, uploads, expandedCategory>>

NextAverages ==
    \/ CalculateCategoryMean
    \/ ComputeRankingAverage
    \/ ComputeHeaderAverage
    \/ CandidateSummaryToCSV

SpecAverages == InitAverages /\ [][NextAverages]_vars

\* C15: every averaging step yields 0 when the set it averages is empty and
\* never divides by zero: the mean of a pivot row, the average of a ranking
\* row, the header average of a ranking table, and the mean deltas of the
\* summary export (whose groups are never empty).
C15_AveragesGuardEmptySets ==
    /\ pc = "calculateCategoryMean" =>
         /\ IsFinite(out)
         /\ (\A i \in 1..Len(arg.cells) : arg.cells[i][2].t # "number") => out = Rat(0, 1)
    /\ pc = "RankingAverage" =>
         /\ IsFinite(out)
         /\ (\A i \in 1..Len(arg.allTests) : ~MapHas(arg.scores, arg.allTests[i]))
               => out = Rat(0, 1)
    /\ pc = "HeaderAverage" =>
         /\ IsFinite(out)
         /\ arg.models = <<>> => out = Rat(0, 1)
    /\ pc = "candidateSummaryToCSV" =>
         /\ ~Includes(out, "NaN") /\ ~Includes(out, "Infinity")
         /\ deltas = <<>> => out = ""
         /\ \A l \in { deltas[i].candidateLabel : i \in 1..Len(deltas) } :
              LET rows == SelectSeq(deltas, LAMBDA d : d.candidateLabel = l)
              IN  /\ Len(rows) > 0
                  /\ Includes(out, l \o "," \o formatValue(
                        Rat(SumInts([i \in 1..Len(rows) |-> rows[i].delta]), Len(rows)),
                        arg.b))

\* A pivot row whose only cell is a string: its mean is 0
C15_Witness ==
    /\ pc = "calculateCategoryMean"
    /\ Len(arg.cells) = 1
    /\ arg.cells[1][2] = JStr("n/a")
    /\ out = Rat(0, 1)

(***************************************************************************)
(* Specification of the category of a record: one entry with a file name  *)
(* under one dataset key                                                   *)
(***************************************************************************)
DatasetKeys == {"datasets/mmlu", "mmlu", "datasets/datasets/x", "xdatasets/m", "datasets/"}
Directories == {"", "sub/", "a/b/"}
CategoryStems == {"algebra", "x.json", "a_test", "y.csv"}
Endings ==
    {"", "_test.csv", "_test.json", "_test.jsonl", ".json", ".jsonl", ".csv", ".txt", "/"}
CategoryFiles == {dir \o stem \o e : dir \in Directories, stem \in CategoryStems, e \in Endings}
                 \cup {"", "/", "sub/"}

\* The document with one dataset key holding one entry
CategoryDocument(datasetKey, file) ==
    JObj(<< <<"dataset_results",
              JObj(<< <<datasetKey,
                        JObj(<< <<"results",
                                  JArr(<< JObj(<< <<"file", JStr(file)>>,
                                                  <<"accuracy_mean", JNum(80)>> >>) >>)>> >>)>> >>)>> >>)

InitCategory ==
    /\ pc = "input"
    /\ arg \in [datasetKey : DatasetKeys, file : CategoryFiles]
    /\ rawData = CategoryDocument(arg.datasetKey, arg.file)
    /\ flat = NoValue
    /\ filename = "" /\ subject = "" /\ sources = <<>> /\ out = NoValue
    /\ deltas = <<>>
    /\ config = NoValue
    /\ loading = FALSE
    /\ selectedSourceIds = <<>>
    /\ viewMode = "dashboard"
    /\ loadsStarted = 0
    /\ loadsFinished = 0
    /\ uploadCount = 0
    /\ dataSchema = {}
    /\ uploads = <<>>
    /\ expandedCategory = ""

FlattenCategory ==
    /\ pc = "input"
    /\ flat' = flattenDatasetResults(rawData)
    /\ pc' = "flattenDatasetResults"
    /\ UNCHANGED <<rawData, filename, subject, sources, out, deltas, arg, config, loading, selectedSourceIds, viewMode, loadsStarted, loadsFinished, uploadCount, dataSchema, uploads, expandedCategory>>

NextCategory == FlattenCategory

SpecCategory == InitCategory /\ [][NextCategory]_vars

\* The dataset key without a leading "datasets/", and nothing else removed
WithoutDatasetsPrefix(d) ==
    IF Len(d) >= 9 /\ \A i \in 1..9 : SubSeq(d, i, i) = SubSeq("datasets/", i, i)
    THEN SubSeq(d, 10, Len(d)) ELSE d

\* The base name of a file: the text after its last "/"
BaseName(f) == LastSegment(f)

\* The base name the category is built from: the text after the last "/",
\* or the whole file string when nothing follows its last "/"
BaseNameOrFile(f) == IF LastSegment(f) = "" THEN f ELSE LastSegment(f)

TestSuffixes == {"_test.csv", "_test.json", "_test.jsonl"}
Extensions == {".csv", ".json", ".jsonl"}

\* s without the longest of its endings that is in the table
WithoutLongestSuffix(s, table) ==
    LET matching == {x \in table \cup {""} : EndsWith(s, x)}
        longest == CHOOSE x \in matching : \A y \in matching : Len(y) <= Len(x)
    IN  DropLast(s, Len(longest))

\* One trailing _test.csv, _test.json, _test.jsonl, .json or .jsonl stripped
StemOneOfFive(f) ==
    WithoutLongestSuffix(BaseName(f), TestSuffixes \cup {".json", ".jsonl"})

\* A test suffix stripped, then an extension stripped: the ending removed is
\* an extension, a test suffix, or an extension followed by a test suffix
StemSuffixAndExtension(f) ==
    WithoutLongestSuffix(BaseNameOrFile(f),
                         TestSuffixes \cup Extensions
                             \cup {e \o t : e \in Extensions, t \in TestSuffixes})

\* C16 as stated: the category of the record is the dataset key without a
\* leading "datasets/", a "/", and the base name of the file with one trailing
\* _test.csv, _test.json, _test.jsonl, .json or .jsonl suffix stripped.
C16_CategoryStripsOneOfFiveSuffixes ==
    pc = "flattenDatasetResults" =>
        /\ ~flat.threw
        /\ Len(flat.results) = 1
        /\ flat.results[1].category
               = WithoutDatasetsPrefix(arg.datasetKey) \o "/" \o StemOneOfFive(arg.file)

\* C16 amended: the category of the record is the dataset key without a
\* leading "datasets/", a "/", and the base name of the file (the whole file
\* string when nothing follows its last "/") with a trailing _test.csv,
\* _test.json or _test.jsonl stripped and then a trailing .csv, .json or
\* .jsonl stripped.
C16_CategoryStripsSuffixAndExtension ==
    pc = "flattenDatasetResults" =>
        /\ ~flat.threw
        /\ Len(flat.results) = 1
        /\ flat.results[1].category
               = WithoutDatasetsPrefix(arg.datasetKey) \o "/"
                     \o StemSuffixAndExtension(arg.file)

\* A record of a plain .csv file under a "datasets/" key, whose category has
\* lost the .csv
C16_Witness ==
    /\ pc = "flattenDatasetResults"
    /\ arg.datasetKey = "datasets/mmlu"
    /\ arg.file = "sub/algebra.csv"
    /\ Len(flat.results) = 1
    /\ flat.results[1].category = "mmlu/algebra"

(***************************************************************************)
(* accuracy_std of a flattened record                                      *)
(***************************************************************************)
\* The accuracy_std values of the entries of a results list that are objects
\* with a string file and a numeric accuracy_mean, in list order
RECURSIVE ContributingStds(_)
ContributingStds(l) ==
    IF l = <<>> THEN <<>>
    ELSE LET e == Head(l)
             here == IF /\ e.t = "object"
                        /\ Get(e, "file").t = "string"
                        /\ Get(e, "accuracy_mean").t = "number"
                     THEN << Get(e, "accuracy_std") >>
                     ELSE <<>>
         IN  here \o ContributingStds(Tail(l))

RECURSIVE ContributingStdsOfDatasets(_)
ContributingStdsOfDatasets(entries) ==
    IF entries = <<>> THEN <<>>
    ELSE LET d == Head(entries)[2]
             here == IF d.t = "object" /\ Get(d, "results").t = "array"
                     THEN ContributingStds(Get(d, "results").a)
                     ELSE <<>>
         IN  here \o ContributingStdsOfDatasets(Tail(entries))

ContributingStdsOfDocument(d) ==
    IF d.t = "object" /\ Get(d, "dataset_results").t \in {"object", "array"}
    THEN ContributingStdsOfDatasets(ObjectEntries(Get(d, "dataset_results")))
    ELSE <<>>

\* C17: a record returned by flattenDatasetResults carries the accuracy_std
\* of its entry, with the same value, when that is a number, and carries no
\* accuracy_std when the entry has none or has one that is not a number.
C17_StdCarriedIffNumeric ==
    pc = "flattenDatasetResults" /\ ~flat.threw =>
        LET stds == ContributingStdsOfDocument(rawData)
        IN  /\ Len(stds) = Len(flat.results)
            /\ \A i \in 1..Len(flat.results) :
                   flat.results[i].accuracy_std
                       = IF stds[i].t = "number" THEN stds[i] ELSE Undefined

(***************************************************************************)
(* Home: the loaded sources and the selection                              *)
(***************************************************************************)
MaxBenchmarks == 2
MaxLoads == 2
MaxUploads == 1

\* Entries of config.official; BenchmarkConfigSchema asks for strings only, so
\* two entries may carry the same id
Benchmarks ==
    { [id |-> "tmmlu", label |-> "Beta", modelName |-> "m1",
       variance |-> "default", hfFolderUrl |-> "f1"],
      [id |-> "tmmlu", label |-> "Alpha", modelName |-> "m2",
       variance |-> "v2", hfFolderUrl |-> "f2"],
      [id |-> "mmlu", label |-> "Alpha", modelName |-> "m2",
       variance |-> "default", hfFolderUrl |-> "f3"] }

\* The configurations BenchmarkConfigSchema.safeParse accepts
Configs == { [official |-> o] : o \in SeqsUpTo(Benchmarks, MaxBenchmarks) }

\* What discoverResultFiles and fetchResultFile give for one benchmark: an
\* error, no files, or the latest run with the model name of its document
\* ("" when the document has none)
LoadOutcomes ==
    { [kind |-> "error", timestamp |-> "", name |-> ""],
      [kind |-> "none", timestamp |-> "", name |-> ""],
      [kind |-> "run", timestamp |-> "20250101_0000", name |-> ""],
      [kind |-> "run", timestamp |-> "20250201_0000", name |-> "fetched"] }

\* parseTimestampFromFilename: YYYYMMDD_HHMM as YYYY-MM-DD HH:MM
DisplayTimestamp(ts) ==
    SubSeq(ts, 1, 4) \o "-" \o SubSeq(ts, 5, 6) \o "-" \o SubSeq(ts, 7, 8)
    \o " " \o SubSeq(ts, 10, 11) \o ":" \o SubSeq(ts, 12, 13)

NoSource == [id |-> "", label |-> "", modelName |-> "", variance |-> "",
             timestamp |-> "", isOfficial |-> FALSE, rawData |-> JNull]

\* One promise of loadPromises: the new source, or null (NoSource)
LoadBenchmark(benchmark, outcome) ==
    IF outcome.kind # "run" THEN NoSource
    ELSE [id |-> "official-" \o benchmark.id \o "-" \o outcome.timestamp,
          label |-> benchmark.label,
          modelName |-> IF outcome.name # "" THEN outcome.name
                        ELSE benchmark.modelName,
          variance |-> benchmark.variance,
          timestamp |-> DisplayTimestamp(outcome.timestamp),
          isOfficial |-> TRUE,
          rawData |-> JObj(<< <<"timestamp", JStr(outcome.timestamp)>> >>)]

\* A Promise.all over promises that reject: one failure leaves nothing
ValidSourcesAllOrNothing(results) ==
    IF \E i \in 1..Len(results) : results[i] = NoSource THEN <<>>
    ELSE LET D == Range(results)
         IN  SortBy(results, { p \in D \X D : LocaleLess(p[1].label, p[2].label) })

\* results.filter((s) => s !== null), sorted by label
ValidSources(results) ==
    LET valid == SelectSeq(results, LAMBDA r : r # NoSource)
        D == Range(valid)
    IN  SortBy(valid, { p \in D \X D : LocaleLess(p[1].label, p[2].label) })

\* setSources(validSources): the list is replaced by what the load found
AddSourcesReplacing(prev, validSources) == validSources

\* The updater handed to setSources: the sources whose id is not among those
\* of prev are appended
AddSources(prev, validSources) ==
    LET existingIds == { prev[i].id : i \in 1..Len(prev) }
    IN  prev \o SelectSeq(validSources, LAMBDA r : r.id \notin existingIds)

\* An effect that selects the official sources only
AutoSelectOfficial(srcs) ==
    LET official == SelectSeq(srcs, LAMBDA r : r.isOfficial)
    IN  [i \in 1..Len(official) |-> official[i].id]

\* The auto-select effect, run whenever sources is a new list
AutoSelect(srcs) == [i \in 1..Len(srcs) |-> srcs[i].id]

\* The files handed to handleFilesUpload: whether parseJSONFile returns, and
\* the config.model.name and timestamp of the document ("" when absent)
UploadFiles ==
    { [name |-> "run.json", parses |-> TRUE, modelName |-> "m3", timestamp |-> "t3"],
      [name |-> "notes.jsonl", parses |-> TRUE, modelName |-> "", timestamp |-> ""],
      [name |-> "bad.json", parses |-> FALSE, modelName |-> "", timestamp |-> ""] }

\* file.name.replace(/\.(json|jsonl)$/, '')
StripJsonExtension(s) ==
    IF EndsWith(s, ".jsonl") THEN DropLast(s, 6)
    ELSE IF EndsWith(s, ".json") THEN DropLast(s, 5)
    ELSE s

\* The source made of an uploaded file.  Its id is upload-${Date.now()}-
\* ${Math.random()}: the pair is taken to differ from one call to the next,
\* and stands here as the number of the call.
UploadedSource(file, n) ==
    [id |-> "upload-" \o ToString(n),
     label |-> file.name,
     modelName |-> IF file.modelName # "" THEN file.modelName
                   ELSE StripJsonExtension(file.name),
     variance |-> "default",
     timestamp |-> IF file.timestamp # "" THEN file.timestamp
                   ELSE "2026-01-01T00:00:00.000Z",
     isOfficial |-> FALSE,
     rawData |-> JObj(<< <<"timestamp", JStr(file.timestamp)>> >>)]

InSeq(s, x) == \E i \in 1..Len(s) : s[i] = x

InitHome ==
    /\ pc = "mount"
    /\ config = NoValue
    /\ loading = FALSE
    /\ sources = <<>>
    /\ selectedSourceIds = <<>>
    /\ viewMode = "dashboard"
    /\ loadsStarted = 0 /\ loadsFinished = 0 /\ uploadCount = 0
    /\ arg = NoValue
    /\ rawData = NoValue /\ flat = NoValue /\ filename = "" /\ subject = ""
    /\ out = NoValue /\ deltas = <<>>
    /\ dataSchema = {}
    /\ uploads = <<>>
    /\ expandedCategory = ""

\* The effect that fetches the configuration, when safeParse accepts it
LoadConfig ==
    /\ config = NoValue
    /\ config' \in Configs
    /\ pc' = "setConfig"
    /\ arg' = NoValue
    /\ UNCHANGED <<rawData, flat, filename, subject, sources, out, deltas, loading,
                   selectedSourceIds, viewMode, loadsStarted, loadsFinished,
                   uploadCount, dataSchema, uploads, expandedCategory>>

\* loadAllLatestResults up to its await: the effect runs when config is set
\* and again when a dependency changes
StartLoad ==
    /\ config # NoValue
    /\ loadsStarted < MaxLoads
    /\ loadsStarted' = loadsStarted + 1
    /\ loading' = TRUE
    /\ pc' = "loadAllLatestResults"
    /\ arg' = NoValue
    /\ UNCHANGED <<rawData, flat, filename, subject, sources, out, deltas, config,
                   selectedSourceIds, viewMode, loadsFinished, uploadCount, dataSchema, uploads, expandedCategory>>

\* loadAllLatestResults after Promise.all has resolved, with the effect that
\* follows the new sources list
FinishLoad ==
    /\ loadsFinished < loadsStarted
    /\ \E outcomes \in [1..Len(config.official) -> LoadOutcomes] :
         LET results == [i \in 1..Len(config.official) |->
                            LoadBenchmark(config.official[i], outcomes[i])]
         IN  /\ sources' = AddSources(sources, ValidSources(results))
             /\ selectedSourceIds' = AutoSelect(sources')
             /\ arg' = [outcomes |-> outcomes]
    /\ loading' = FALSE
    /\ loadsFinished' = loadsFinished + 1
    /\ pc' = "setSources"
    /\ UNCHANGED <<rawData, flat, filename, subject, out, deltas, config, viewMode,
                   loadsStarted, uploadCount, dataSchema, uploads, expandedCategory>>

\* One turn of the loop of handleFilesUpload, with the effect that follows the
\* new sources list; a file that does not parse changes nothing
UploadFile ==
    /\ uploadCount < MaxUploads
    /\ \E file \in UploadFiles :
       /\ arg' = [file |-> file]
       /\
         IF file.parses
         THEN /\ sources' = Append(sources, UploadedSource(file, uploadCount + 1))
              /\ selectedSourceIds' = AutoSelect(sources')
         ELSE UNCHANGED <<sources, selectedSourceIds, dataSchema, uploads, expandedCategory>>
    /\ uploadCount' = uploadCount + 1
    /\ pc' = "handleFilesUpload"
    /\ UNCHANGED <<rawData, flat, filename, subject, out, deltas, config, loading,
                   viewMode, loadsStarted, loadsFinished, dataSchema, uploads, expandedCategory>>

\* The checkbox of the i-th source is clicked: checked is what it was not
ToggleSource(i) ==
    /\ i \in 1..Len(sources)
    /\ LET id == sources[i].id
           checked == ~InSeq(selectedSourceIds, id)
       IN  selectedSourceIds' =
               IF checked THEN Append(selectedSourceIds, id)
               ELSE SelectSeq(selectedSourceIds, LAMBDA sid : sid # id)
    /\ pc' = "handleToggleSource"
    /\ arg' = [index |-> i]
    /\ UNCHANGED <<rawData, flat, filename, subject, sources, out, deltas, config,
                   loading, viewMode, loadsStarted, loadsFinished, uploadCount, dataSchema, uploads, expandedCategory>>

HandleToggleSource == \E i \in 1..Len(sources) : ToggleSource(i)

HandleSelectAll ==
    /\ Len(sources) > 0
    /\ selectedSourceIds' = [i \in 1..Len(sources) |-> sources[i].id]
    /\ pc' = "handleSelectAll"
    /\ arg' = NoValue
    /\ UNCHANGED <<rawData, flat, filename, subject, sources, out, deltas, config,
                   loading, viewMode, loadsStarted, loadsFinished, uploadCount, dataSchema, uploads, expandedCategory>>

HandleClearAll ==
    /\ Len(sources) > 0
    /\ selectedSourceIds' = <<>>
    /\ pc' = "handleClearAll"
    /\ arg' = NoValue
    /\ UNCHANGED <<rawData, flat, filename, subject, sources, out, deltas, config,
                   loading, viewMode, loadsStarted, loadsFinished, uploadCount, dataSchema, uploads, expandedCategory>>

SetViewMode ==
    /\ viewMode' \in {"dashboard", "table"}
    /\ viewMode' # viewMode
    /\ pc' = "setViewMode"
    /\ arg' = NoValue
    /\ UNCHANGED <<rawData, flat, filename, subject, sources, out, deltas, config,
                   loading, selectedSourceIds, loadsStarted, loadsFinished,
                   uploadCount, dataSchema, uploads, expandedCategory>>

NextHome ==
    \/ LoadConfig
    \/ StartLoad
    \/ FinishLoad
    \/ UploadFile
    \/ HandleToggleSource
    \/ HandleSelectAll
    \/ HandleClearAll
    \/ SetViewMode

SpecHome == InitHome /\ [][NextHome]_vars

\* The i-th source is in the selected set (selectedSources of Home)
IsSelected(i) == InSeq(selectedSourceIds, sources[i].id)

\* C19: a source of the loaded list stays in it unchanged, and it leaves the
\* selected set only in a step in which the user unticks its checkbox or
\* chooses None; no load, upload or view change removes it.
C19_SourcesLeaveOnlyByDeselection ==
    [][/\ Len(sources') >= Len(sources)
       /\ \A i \in 1..Len(sources) :
            /\ sources'[i] = sources[i]
            /\ IsSelected(i) /\ ~InSeq(selectedSourceIds', sources[i].id)
                 => \/ pc' = "handleClearAll"
                    \/ pc' = "handleToggleSource" /\ arg' = [index |-> i]]_vars

\* C20: no two sources of the loaded list share an id.
C20_SourceIdsUnique ==
    \A i, j \in 1..Len(sources) : sources[i].id = sources[j].id => i = j

\* The ids of a list of sources
SourceIds(srcs) == { srcs[i].id : i \in 1..Len(srcs) }

\* The step is the completion of an official load, arg'.outcomes what its
\* benchmarks gave
IsFinishLoad == pc' = "setSources" /\ loadsFinished' = loadsFinished + 1

\* The step is one file of an upload, arg'.file
IsUploadFile == pc' = "handleFilesUpload" /\ uploadCount' = uploadCount + 1

\* The results of the promises of a load with the given outcomes
LoadResults(outcomes) ==
    [i \in 1..Len(config.official) |-> LoadBenchmark(config.official[i], outcomes[i])]

\* C25: whatever the order in which the official load and the uploads
\* complete, every step keeps the sources already in the list, in place; the
\* completion of a load leaves in the list a source with the id of every
\* source it created (the first load: that very source), and a file that
\* parses leaves its source at the end of the list.
C25_NoSourceLost ==
    [][/\ Len(sources') >= Len(sources)
       /\ \A i \in 1..Len(sources) : sources'[i] = sources[i]
       /\ IsFinishLoad =>
             \A i \in 1..Len(config.official) :
                 arg'.outcomes[i].kind = "run" =>
                     /\ LoadResults(arg'.outcomes)[i].id \in SourceIds(sources')
                     /\ loadsFinished = 0 => InSeq(sources', LoadResults(arg'.outcomes)[i])
       /\ IsUploadFile /\ arg'.file.parses =>
             /\ Len(sources') = Len(sources) + 1
             /\ sources'[Len(sources')] = UploadedSource(arg'.file, uploadCount')]_vars

\* An upload completed while the load was in flight, and both are in the list
C25_Witness ==
    /\ pc = "setSources"
    /\ loadsStarted = 1 /\ loadsFinished = 1
    /\ uploadCount = 1
    /\ Len(sources) = 3
    /\ ~sources[1].isOfficial
    /\ sources[2].isOfficial /\ sources[3].isOfficial

\* The steps that read or write config, loading, sources or the counters of
\* the loads: the handlers of the selection and of the view mode touch none
\* of them
NextAutoLoad ==
    \/ LoadConfig
    \/ StartLoad
    \/ FinishLoad
    \/ UploadFile

\* Home with the scheduling of the load: the effect runs once config is set,
\* and the requests of a load that started all settle, so that Promise.all
\* resolves
SpecAutoLoad ==
    /\ InitHome
    /\ [][NextAutoLoad]_vars
    /\ WF_vars(StartLoad /\ loadsStarted = 0)
    /\ WF_vars(FinishLoad)

\* The official sources of a list
OfficialSources(srcs) == SelectSeq(srcs, LAMBDA r : r.isOfficial)

\* The number of benchmarks of a load whose discovery found a run and whose
\* fetch succeeded
Succeeded(outcomes) == Cardinality({ i \in 1..Len(config.official) : outcomes[i].kind = "run" })

C27_SelectionResetOnChange ==
    [][/\ sources' # sources => selectedSourceIds' = [i \in 1..Len(sources') |-> sources'[i].id]
       /\ Range(selectedSourceIds') \subseteq SourceIds(sources')]_vars

\* An upload has just put back into the selection the sources of a list of
\* three
C27_Witness ==
    /\ pc = "handleFilesUpload"
    /\ arg.file.parses
    /\ Len(sources) = 3
    /\ Len(selectedSourceIds) = 3
    /\ Range(selectedSourceIds) = SourceIds(sources)

(***************************************************************************)
(* discoverResultFiles and fetchResultFile                                 *)
(***************************************************************************)
\* The first position at which pat occurs in s, 0 when it does not
IndexOf(s, pat) ==
    LET at == { i \in 1..(Len(s) - Len(pat) + 1) : SubSeq(s, i, i + Len(pat) - 1) = pat }
    IN  IF at = {} THEN 0 ELSE Min(at)

\* s.replace(pat, rep) for a string pat: the first occurrence only
ReplaceFirst(s, pat, rep) ==
    LET i == IndexOf(s, pat)
    IN  IF i = 0 THEN s
        ELSE SubSeq(s, 1, i - 1) \o rep \o SubSeq(s, i + Len(pat), Len(s))

IsDigits(s) == \A i \in 1..Len(s) : \E d \in 1..10 : SubSeq(s, i, i) = SubSeq("0123456789", d, d)

\* RESULTS_PATTERN = /^results_(\d{8})_(\d{4})\.json$/
MatchesResultsPattern(name) ==
    /\ Len(name) = 26
    /\ SubSeq(name, 1, 8) = "results_"
    /\ IsDigits(SubSeq(name, 9, 16))
    /\ SubSeq(name, 17, 17) = "_"
    /\ IsDigits(SubSeq(name, 18, 21))
    /\ SubSeq(name, 22, 26) = ".json"

\* The display timestamp, or "" for null
parseTimestampFromFilename(name) ==
    IF MatchesResultsPattern(name) THEN DisplayTimestamp(SubSeq(name, 9, 21)) ELSE ""

convertTreeUrlToResolve(treeUrl) == ReplaceFirst(treeUrl, "/tree/", "/resolve/")

\* Mutant: the files are returned in the order they were listed.
parseFilenamesUnsorted(filenames) ==
    LET matching == SelectSeq(filenames, LAMBDA f : parseTimestampFromFilename(f) # "")
    IN  [i \in 1..Len(matching) |->
            [filename |-> matching[i],
             timestamp |-> ReplaceFirst(ReplaceFirst(matching[i], "results_", ""),
                                        ".json", ""),
             displayTimestamp |-> parseTimestampFromFilename(matching[i])]]

parseFilenames(filenames) ==
    LET matching == SelectSeq(filenames, LAMBDA f : parseTimestampFromFilename(f) # "")
        results == [i \in 1..Len(matching) |->
                       [filename |-> matching[i],
                        timestamp |-> ReplaceFirst(ReplaceFirst(matching[i], "results_", ""),
                                                   ".json", ""),
                        displayTimestamp |-> parseTimestampFromFilename(matching[i])]]
        D == Range(results)
    IN  SortBy(results, { p \in D \X D : LocaleLess(p[2].timestamp, p[1].timestamp) })

\* new URL(s) returns for an absolute http(s) URL and raises otherwise; the
\* URLs used here are already in the form href gives them
IsAbsoluteUrl(s) == StartsWith(s, "https://") \/ StartsWith(s, "http://")

\* The origin of an absolute URL: scheme, "://" and the host, which ends at the
\* first "/", "?" or "#"
Origin(u) ==
    LET start == IndexOf(u, "://") + 3
        ends == { i \in start..Len(u) : SubSeq(u, i, i) \in {"/", "?", "#"} }
    IN  IF ends = {} THEN u ELSE SubSeq(u, 1, Min(ends) - 1)

\* allowedOrigins.some((origin) => url.href.startsWith(origin))
IsAllowed(href, allowedOrigins) ==
    \E i \in 1..Len(allowedOrigins) : StartsWith(href, allowedOrigins[i])

HuggingFaceDatasets == "https://huggingface.co/datasets/"

\* The match of /https:\/\/huggingface\.co\/datasets\/([^/]+)\/([^/]+)\/KIND\/([^/]+)\/(.+)/
\* that starts at position i of url, for KIND tree or resolve
HuggingFaceMatchAt(url, i, kind) ==
    LET rest == SubSeq(url, i + Len(HuggingFaceDatasets), Len(url))
        slashes == SlashPositions(rest)
        nth[k \in 1..4] == IF k = 1 THEN Min(slashes)
                           ELSE Min({ q \in slashes : q > nth[k - 1] })
    IN  IF \/ i + Len(HuggingFaceDatasets) - 1 > Len(url)
           \/ SubSeq(url, i, i + Len(HuggingFaceDatasets) - 1) # HuggingFaceDatasets
           \/ Cardinality(slashes) < 4
        THEN [matched |-> FALSE, owner |-> "", repo |-> "", branch |-> "", path |-> ""]
        ELSE LET owner == SubSeq(rest, 1, nth[1] - 1)
                 repo == SubSeq(rest, nth[1] + 1, nth[2] - 1)
                 word == SubSeq(rest, nth[2] + 1, nth[3] - 1)
                 branch == SubSeq(rest, nth[3] + 1, nth[4] - 1)
                 path == SubSeq(rest, nth[4] + 1, Len(rest))
             IN  [matched |-> owner # "" /\ repo # "" /\ word = kind
                                /\ branch # "" /\ path # "",
                  owner |-> owner, repo |-> repo, branch |-> branch, path |-> path]

\* hfFolderUrl.match(...): the leftmost match; the expression is not anchored
HuggingFaceMatch(url, kind) ==
    LET n == Len(HuggingFaceDatasets)
        starts == { i \in 1..(Len(url) - n + 1) :
                      SubSeq(url, i, i + n - 1) = HuggingFaceDatasets }
        at == { i \in starts : HuggingFaceMatchAt(url, i, kind).matched }
    IN  IF at = {}
        THEN [matched |-> FALSE, owner |-> "", repo |-> "", branch |-> "", path |-> ""]
        ELSE HuggingFaceMatchAt(url, Min(at), kind)

\* The names discoverFromHuggingFaceAPI takes from a listing: the base names
\* of the entries of type file that start with "result"
ListedNames(files) ==
    LET ofFiles == SelectSeq(files, LAMBDA f : f.type = "file")
        names == [i \in 1..Len(ofFiles) |-> LastSegment(ofFiles[i].path)]
    IN  SelectSeq(names, LAMBDA n : StartsWith(n, "result"))

\* A call returns [threw, files, requests]: requests are the URLs handed to
\* fetch, in order.  A response is [kind, body]: kind "error" when fetch
\* rejects, "notok" when response.ok is false, "ok" with the parsed body.
\* The part of discoverFromHuggingFaceAPI after the match
ListFromHuggingFaceAPI(match, network) ==
    LET apiUrl == "https://huggingface.co/api/datasets/" \o match.owner \o "/"
                      \o match.repo \o "/tree/" \o match.branch \o "/" \o match.path
    IN  IF ~match.matched THEN [threw |-> TRUE, files |-> <<>>, requests |-> <<>>]
        ELSE IF network.api.kind # "ok"
             THEN [threw |-> TRUE, files |-> <<>>, requests |-> <<apiUrl>>]
             ELSE [threw |-> FALSE,
                   files |-> parseFilenames(ListedNames(network.api.body)),
                   requests |-> <<apiUrl>>]

\* match = treeMatch || resolveMatch, a value computed once
discoverFromHuggingFaceAPI(hfFolderUrl, network) ==
    CHOOSE r \in { ListFromHuggingFaceAPI(IF treeMatch.matched THEN treeMatch
                                          ELSE HuggingFaceMatch(hfFolderUrl, "resolve"),
                                          network) :
                   treeMatch \in {HuggingFaceMatch(hfFolderUrl, "tree")} } : TRUE

\* The catch block of discoverResultFiles, api being what Strategy 1 gave
DiscoverFromManifest(hfFolderUrl, network, api) ==
    LET resolveUrl == convertTreeUrlToResolve(hfFolderUrl)
        indexUrl == IF EndsWith(resolveUrl, "/") THEN resolveUrl \o "index.json"
                    ELSE resolveUrl \o "/index.json"
    IN  IF ~api.threw THEN api
        ELSE IF network.manifest.kind = "ok"
             THEN [threw |-> FALSE,
                   files |-> parseFilenames(network.manifest.body),
                   requests |-> api.requests \o <<indexUrl>>]
             ELSE [threw |-> TRUE, files |-> <<>>,
                   requests |-> api.requests \o <<indexUrl>>]

discoverResultFiles(hfFolderUrl, allowedOrigins, network) ==
    IF ~IsAbsoluteUrl(hfFolderUrl) \/ ~IsAllowed(hfFolderUrl, allowedOrigins)
    THEN [threw |-> TRUE, files |-> <<>>, requests |-> <<>>]
    ELSE CHOOSE r \in { DiscoverFromManifest(hfFolderUrl, network, api) :
                        api \in {discoverFromHuggingFaceAPI(hfFolderUrl, network)} } : TRUE

\* fetchResultFile returns [threw, requests]
fetchResultFile(hfFolderUrl, name, allowedOrigins, network) ==
    LET resolveUrl == convertTreeUrlToResolve(hfFolderUrl)
        fileUrl == IF EndsWith(resolveUrl, "/") THEN resolveUrl \o name
                   ELSE resolveUrl \o "/" \o name
    IN  IF ~IsAbsoluteUrl(fileUrl) \/ ~IsAllowed(fileUrl, allowedOrigins)
        THEN [threw |-> TRUE, requests |-> <<>>]
        ELSE [threw |-> network.file.kind # "ok", requests |-> <<fileUrl>>]

\* The part of a promise of loadAllLatestResults after discoverResultFiles
\* has settled with found
FetchLatestRun(hfFolderUrl, allowedOrigins, network, found) ==
    IF found.threw
    THEN [kind |-> "error", latestRun |-> "", requests |-> found.requests]
    ELSE IF Len(found.files) = 0
    THEN [kind |-> "none", latestRun |-> "", requests |-> found.requests]
    ELSE LET latestRun == found.files[1]
             fetched == fetchResultFile(hfFolderUrl, latestRun.filename,
                                        allowedOrigins, network)
         IN  [kind |-> IF fetched.threw THEN "error" ELSE "run",
              latestRun |-> latestRun.filename,
              requests |-> found.requests \o fetched.requests]

\* One promise of loadAllLatestResults up to the fetched document: kind is
\* "error" when a call raised, "none" without files, "run" with latestRun
LoadLatestRun(hfFolderUrl, allowedOrigins, network) ==
    CHOOSE r \in { FetchLatestRun(hfFolderUrl, allowedOrigins, network, found) :
                   found \in {discoverResultFiles(hfFolderUrl, allowedOrigins, network)} } :
        TRUE

(***************************************************************************)
(* Specification of discovery: one folder URL, one allow-list, and what    *)
(* the network answers                                                     *)
(***************************************************************************)
MaxManifestFiles == 2

HfTree == "https://huggingface.co/datasets/o/r/tree/main/results"

FolderUrls ==
    { HfTree,
      HfTree \o "/",
      "https://huggingface.co/datasets/o/r/resolve/main/results",
      "https://huggingface.co.evil.example/datasets/o/r/tree/main/results",
      "https://raw.githubusercontent.com/o/r/main/results/",
      "https://example.org/x?u=" \o HfTree,
      "results/" }

AllowLists ==
    { <<"https://huggingface.co", "https://raw.githubusercontent.com">>,
      <<"https://huggingface.co">>,
      <<"https://example.org">>,
      <<>> }

ManifestNames ==
    { "results_20250101_0000.json", "results_20250301_1200.json",
      "results_20241231_2359.json", "results_2025_01.json" }

\* Listings of the Hugging Face API
ApiListings ==
    { <<>>,
      << [type |-> "file", path |-> "results/results_20250101_0000.json"],
         [type |-> "directory", path |-> "results/results_20250401_0000.json"],
         [type |-> "file", path |-> "results/results_20250301_1200.json"],
         [type |-> "file", path |-> "results/README.md"] >>,
      << [type |-> "file", path |-> "results/result_notes.json"],
         [type |-> "file", path |-> "results/results_20241231_2359.json"],
         [type |-> "file", path |-> "results/xresults_20250101_0000.json"] >> }

ApiResponses ==
    { [kind |-> "error", body |-> <<>>], [kind |-> "notok", body |-> <<>>] }
    \cup { [kind |-> "ok", body |-> l] : l \in ApiListings }

ManifestResponses ==
    { [kind |-> "error", body |-> <<>>], [kind |-> "notok", body |-> <<>>] }
    \cup { [kind |-> "ok", body |-> l] : l \in SeqsUpTo(ManifestNames, MaxManifestFiles) }

FileResponses == { [kind |-> k] : k \in {"error", "notok", "ok"} }

Networks == [api : ApiResponses, manifest : ManifestResponses, file : FileResponses]

InitDiscover ==
    /\ pc = "input"
    /\ arg \in [hfFolderUrl : FolderUrls, allowedOrigins : AllowLists, network : Networks]
    /\ out = NoValue
    /\ rawData = NoValue /\ flat = NoValue /\ filename = "" /\ subject = ""
    /\ sources = <<>> /\ deltas = <<>>
    /\ config = NoValue /\ loading = FALSE /\ selectedSourceIds = <<>>
    /\ viewMode = "dashboard"
    /\ loadsStarted = 0 /\ loadsFinished = 0 /\ uploadCount = 0
    /\ dataSchema = {}
    /\ uploads = <<>>
    /\ expandedCategory = ""

DiscoverResultFiles ==
    /\ pc = "input"
    /\ out' = discoverResultFiles(arg.hfFolderUrl, arg.allowedOrigins, arg.network)
    /\ pc' = "discoverResultFiles"
    /\ UNCHANGED <<rawData, flat, filename, subject, sources, deltas, arg, config,
                   loading, selectedSourceIds, viewMode, loadsStarted, loadsFinished,
                   uploadCount, dataSchema, uploads, expandedCategory>>

FetchResultFile ==
    /\ pc = "input"
    /\ \E name \in { n \in ManifestNames : MatchesResultsPattern(n) } :
          /\ filename' = name
          /\ out' = fetchResultFile(arg.hfFolderUrl, name, arg.allowedOrigins,
                                    arg.network)
    /\ pc' = "fetchResultFile"
    /\ UNCHANGED <<rawData, flat, subject, sources, deltas, arg, config, loading,
                   selectedSourceIds, viewMode, loadsStarted, loadsFinished,
                   uploadCount, dataSchema, uploads, expandedCategory>>

LoadLatest ==
    /\ pc = "input"
    /\ out' = LoadLatestRun(arg.hfFolderUrl, arg.allowedOrigins, arg.network)
    /\ pc' = "loadAllLatestResults"
    /\ UNCHANGED <<rawData, flat, filename, subject, sources, deltas, arg, config,
                   loading, selectedSourceIds, viewMode, loadsStarted, loadsFinished,
                   uploadCount, dataSchema, uploads, expandedCategory>>

NextDiscover == DiscoverResultFiles \/ FetchResultFile \/ LoadLatest

SpecDiscover == InitDiscover /\ [][NextDiscover]_vars

\* The origins the allow-list names
AllowedOriginsOf(allowedOrigins) ==
    { Origin(allowedOrigins[i]) : i \in 1..Len(allowedOrigins) }

\* C21: every request made by discoverResultFiles and fetchResultFile (alone
\* or one after the other in a load) goes to a URL whose origin is one of the
\* configured allowOrigins; otherwise an error is raised and no request made.
C21_RequestsOnlyToAllowedOrigins ==
    pc \in {"discoverResultFiles", "fetchResultFile", "loadAllLatestResults"} =>
        \A i \in 1..Len(out.requests) :
            Origin(out.requests[i]) \in AllowedOriginsOf(arg.allowedOrigins)

\* The number a string of digits writes
RECURSIVE DigitsValue(_)
DigitsValue(s) ==
    IF s = "" THEN 0
    ELSE 10 * DigitsValue(DropLast(s, 1))
         + (CHOOSE d \in 0..9 : SubSeq("0123456789", d + 1, d + 1) = SubSeq(s, Len(s), Len(s)))

\* The run named a is not later than the run named b: the dates YYYYMMDD
\* compared as numbers, then the times HHMM
NotLater(a, b) ==
    LET dateA == DigitsValue(SubSeq(a, 9, 16))
        dateB == DigitsValue(SubSeq(b, 9, 16))
    IN  \/ dateA < dateB
        \/ dateA = dateB /\ DigitsValue(SubSeq(a, 18, 21)) <= DigitsValue(SubSeq(b, 18, 21))

\* The names a listing offers: the manifest's entries, or the base names of
\* the API's entries of type file, that match results_YYYYMMDD_HHMM.json
OfferedByManifest ==
    { n \in Range(arg.network.manifest.body) : MatchesResultsPattern(n) }
OfferedByApi ==
    { LastSegment(e.path) : e \in { x \in Range(arg.network.api.body) : x.type = "file" } }
        \cap { n \in { LastSegment(e.path) : e \in Range(arg.network.api.body) } :
                 MatchesResultsPattern(n) }

\* C22: the files discovery returns are those of the listing that match
\* results_YYYYMMDD_HHMM.json, and the run a load fetches is the one with the
\* greatest timestamp among them.
C22_LatestMatchingRunLoaded ==
    /\ pc = "discoverResultFiles" /\ ~out.threw =>
         LET names == { out.files[i].filename : i \in 1..Len(out.files) }
         IN  /\ names \in {OfferedByManifest, OfferedByApi}
             /\ \A i, j \in 1..Len(out.files) :
                   i < j => NotLater(out.files[j].filename, out.files[i].filename)
    /\ pc = "loadAllLatestResults" /\ out.kind = "run" =>
         \E offered \in {OfferedByManifest, OfferedByApi} :
            /\ out.latestRun \in offered
            /\ \A n \in offered : NotLater(n, out.latestRun)
            /\ EndsWith(out.requests[Len(out.requests)], "/" \o out.latestRun)

\* A load of a listing that names an older run before the latest one and a
\* name off the pattern
C22_Witness ==
    /\ pc = "loadAllLatestResults"
    /\ out.kind = "run"
    /\ arg.network.api.kind = "ok"
    /\ Len(arg.network.api.body) = 4
    /\ out.latestRun = "results_20250301_1200.json"

\* C23: discovery first requests the index.json manifest of the folder and
\* goes to the listing API only when there is no manifest; when there is a
\* manifest the files are those it names.
C23_ManifestBeforeApi ==
    pc = "discoverResultFiles" /\ out.requests # <<>> =>
        /\ EndsWith(out.requests[1], "/index.json")
        /\ arg.network.manifest.kind = "ok" =>
             /\ ~out.threw
             /\ Len(out.requests) = 1
             /\ { out.files[i].filename : i \in 1..Len(out.files) } = OfferedByManifest

(***************************************************************************)
(* Home: the stored schema                                                 *)
(* A document stands as its shape, the set of <<key, type>> pairs of its   *)
(* top-level properties.  deriveSchema gives a passthrough object schema,  *)
(* which accepts the documents that hold each of its pairs; mergeSchemas   *)
(* gives the union; a schema is the set of the shapes it unites.           *)
(***************************************************************************)
MaxSchemaDocuments == 3
MaxUploadBatch == 2

DocumentShapes ==
    { { <<"timestamp", "string">>, <<"dataset_results", "object">> },
      { <<"timestamp", "string">>, <<"dataset_results", "object">>,
        <<"config", "object">> },
      { <<"dataset_results", "object">> },
      { <<"timestamp", "number">>, <<"dataset_results", "object">> } }

deriveSchema(data) == {data}

mergeSchemas(schema1, schema2) == schema1 \cup schema2

\* validateData(data, schema).success
validateData(data, schema) == \E shape \in schema : shape \subseteq data

InitSchema ==
    /\ pc = "mount"
    /\ dataSchema = {}
    /\ uploads = <<>>
    /\ sources = <<>>
    /\ out = NoValue
    /\ arg = NoValue
    /\ rawData = NoValue /\ flat = NoValue /\ filename = "" /\ subject = ""
    /\ deltas = <<>>
    /\ config = NoValue /\ loading = FALSE /\ selectedSourceIds = <<>>
    /\ viewMode = "dashboard"
    /\ loadsStarted = 0 /\ loadsFinished = 0 /\ uploadCount = 0
    /\ expandedCategory = ""

\* One promise of loadAllLatestResults from the fetched document on: the
\* stored schema is merged with the document's own, and the document is
\* validated against its own schema.  out records the document and the schema
\* it was validated against.
OfficialDocument ==
    /\ Len(sources) < MaxSchemaDocuments
    /\ \E data \in DocumentShapes :
         LET newSchema == deriveSchema(data)
         IN  /\ dataSchema' = IF dataSchema # {} THEN mergeSchemas(dataSchema, newSchema)
                              ELSE newSchema
             /\ out' = [data |-> data, validated |-> TRUE, against |-> newSchema,
                        success |-> validateData(data, newSchema)]
             /\ sources' = Append(sources, [isOfficial |-> TRUE, rawData |-> data])
    /\ pc' = "loadAllLatestResults"
    /\ UNCHANGED <<rawData, flat, filename, subject, deltas, arg, config, loading,
                   selectedSourceIds, viewMode, loadsStarted, loadsFinished,
                   uploadCount, uploads, expandedCategory>>

\* handleFilesUpload is called with files: the call keeps the dataSchema of
\* the render it was made in
StartUpload ==
    /\ Len(uploads) = 0
    /\ \E files \in SeqsUpTo(DocumentShapes, MaxUploadBatch) :
         /\ files # <<>>
         /\ Len(sources) + Len(files) <= MaxSchemaDocuments
         /\ uploads' = <<[dataSchema |-> dataSchema, files |-> files]>>
    /\ pc' = "handleFilesUpload"
    /\ UNCHANGED <<rawData, flat, filename, subject, sources, out, deltas, arg, config,
                   loading, selectedSourceIds, viewMode, loadsStarted, loadsFinished,
                   uploadCount, dataSchema, expandedCategory>>

\* One turn of the loop of handleFilesUpload, after parseJSONFile has returned
UploadDocument ==
    /\ Len(uploads) > 0
    /\ LET call == uploads[1]
           data == Head(call.files)
       IN  /\ IF call.dataSchema # {}
              THEN /\ dataSchema' =
                         IF validateData(data, call.dataSchema) THEN dataSchema
                         ELSE mergeSchemas(call.dataSchema, deriveSchema(data))
                   /\ out' = [data |-> data, validated |-> TRUE,
                              against |-> call.dataSchema,
                              success |-> validateData(data, call.dataSchema)]
              ELSE /\ dataSchema' = deriveSchema(data)
                   /\ out' = [data |-> data, validated |-> FALSE, against |-> {},
                              success |-> FALSE]
           /\ sources' = Append(sources, [isOfficial |-> FALSE, rawData |-> data])
           /\ uploads' = IF Len(call.files) = 1 THEN <<>>
                         ELSE <<[call EXCEPT !.files = Tail(@)]>>
    /\ pc' = "setSources"
    /\ UNCHANGED <<rawData, flat, filename, subject, deltas, arg, config, loading,
                   selectedSourceIds, viewMode, loadsStarted, loadsFinished,
                   uploadCount, expandedCategory>>

NextSchema == OfficialDocument \/ StartUpload \/ UploadDocument

SpecSchema == InitSchema /\ [][NextSchema]_vars

\* The schema derived from the documents loaded so far
SchemaOfLoaded == UNION { {sources[i].rawData} : i \in 1..Len(sources) }

\* C24: a document loaded after the first is validated against the schema
\* derived from the documents loaded before it, and when it does not fit that
\* schema the stored schema becomes the stored schema merged with its own.
C24_ValidatedAgainstStoredSchema ==
    [][Len(sources') > Len(sources) /\ Len(sources) > 0 =>
          /\ out'.validated
          /\ out'.against = SchemaOfLoaded
          /\ ~(\E shape \in SchemaOfLoaded : shape \subseteq out'.data) =>
                dataSchema' = SchemaOfLoaded \cup {out'.data}]_vars

(***************************************************************************)
(* CategoryDashboard: the expanded category                                *)
(***************************************************************************)
\* The identities of the loaded sources the user selects among
DashboardSlots ==
    << [id |-> "upload-1", modelName |-> "m1", variance |-> "default",
        timestamp |-> "t1", isOfficial |-> FALSE],
       [id |-> "official-b2-202501010000", modelName |-> "m2", variance |-> "default",
        timestamp |-> "2025-01-01 00:00", isOfficial |-> TRUE],
       [id |-> "upload-3", modelName |-> "m3", variance |-> "default",
        timestamp |-> "t3", isOfficial |-> FALSE],
       [id |-> "upload-4", modelName |-> "m4", variance |-> "default",
        timestamp |-> "t4", isOfficial |-> FALSE] >>

\* Their documents: algebra and biology, algebra alone, history, biology
DashboardLoaded ==
    SourcesOf(<< <<1, <<"datasets/mmlu", "algebra_test.csv", 50>> >>,
                 <<1, <<"datasets/mmlu", "biology.json", 90>> >>,
                 <<2, <<"datasets/mmlu", "algebra_test.csv", 90>> >>,
                 <<3, <<"datasets/mmlu", "history.jsonl", 40>> >>,
                 <<4, <<"datasets/mmlu", "biology.json", 70>> >> >>,
              DashboardSlots)

\* selectedSources of Home when it shows the dashboard: the loaded sources
\* whose id is ticked, in the order of the list, at least one
SelectedSourceLists ==
    { SelectSeq(DashboardLoaded, LAMBDA r : r.id \in ids) :
        ids \in (SUBSET { DashboardLoaded[i].id : i \in 1..Len(DashboardLoaded) }) \ {{}} }

\* The names of the categories of categoryStats, which are also the labels
\* CompactDashboard draws for the same sources
CategoryNames(srcs) ==
    LET stats == categoryStats(srcs).value
    IN  { stats[i].name : i \in 1..Len(stats) }

InitDashboard ==
    /\ pc = "mount"
    /\ sources \in SelectedSourceLists
    /\ expandedCategory = ""
    /\ arg = NoValue
    /\ out = NoValue
    /\ rawData = NoValue /\ flat = NoValue /\ filename = "" /\ subject = ""
    /\ deltas = <<>>
    /\ config = NoValue /\ loading = FALSE /\ selectedSourceIds = <<>>
    /\ viewMode = "dashboard"
    /\ loadsStarted = 0 /\ loadsFinished = 0 /\ uploadCount = 0
    /\ dataSchema = {}
    /\ uploads = <<>>

\* onCategoryClick: a label of the radar chart is clicked
CategoryClick ==
    /\ \E category \in CategoryNames(sources) :
         /\ expandedCategory' = IF expandedCategory = category THEN "" ELSE category
         /\ arg' = [category |-> category]
    /\ pc' = "onCategoryClick"
    /\ UNCHANGED <<rawData, flat, filename, subject, sources, out, deltas, config, loading,
                   selectedSourceIds, viewMode, loadsStarted, loadsFinished, uploadCount,
                   dataSchema, uploads>>

\* The Collapse button, drawn while a category is expanded
Collapse ==
    /\ expandedCategory # ""
    /\ expandedCategory' = ""
    /\ arg' = NoValue
    /\ pc' = "collapse"
    /\ UNCHANGED <<rawData, flat, filename, subject, sources, out, deltas, config, loading,
                   selectedSourceIds, viewMode, loadsStarted, loadsFinished, uploadCount,
                   dataSchema, uploads>>

\* Home hands the mounted dashboard another selection: the state is kept
SelectedSourcesChange ==
    /\ \E srcs \in SelectedSourceLists :
         /\ srcs # sources
         /\ sources' = srcs
    /\ arg' = NoValue
    /\ pc' = "render"
    /\ UNCHANGED <<rawData, flat, filename, subject, out, deltas, config, loading,
                   selectedSourceIds, viewMode, loadsStarted, loadsFinished, uploadCount,
                   dataSchema, uploads, expandedCategory>>

\* Home stops drawing the dashboard (nothing selected, or the other view) and
\* draws it again: useState starts from null
Remount ==
    /\ sources' \in SelectedSourceLists
    /\ expandedCategory' = ""
    /\ arg' = NoValue
    /\ pc' = "mount"
    /\ UNCHANGED <<rawData, flat, filename, subject, out, deltas, config, loading,
                   selectedSourceIds, viewMode, loadsStarted, loadsFinished, uploadCount,
                   dataSchema, uploads>>

NextDashboard ==
    \/ CategoryClick
    \/ Collapse
    \/ SelectedSourcesChange
    \/ Remount

SpecDashboard == InitDashboard /\ [][NextDashboard]_vars

\* C28: after every step expandedCategory is null or the name of a category
\* of the current categoryStats; a click on the expanded category sets it to
\* null and a click on another category sets it to that category.
C28_ExpandedCategoryIsCurrent ==
    [][/\ expandedCategory' = "" \/ expandedCategory' \in CategoryNames(sources')
       /\ pc' = "onCategoryClick" =>
             expandedCategory' = IF expandedCategory = arg'.category THEN ""
                                 ELSE arg'.category]_vars

(***************************************************************************)
(* filterDeltasByThreshold and sortDeltas, one after the other             *)
(***************************************************************************)
\* filterDeltasByThreshold(deltas, threshold), to be handed to sortDeltas
FilterFirst ==
    /\ pc = "input"
    /\ \E threshold \in Thresholds, sortMode \in DeltaSortModes :
         /\ arg' = [threshold |-> threshold, sortMode |-> sortMode]
         /\ out' = filterDeltasByThreshold(deltas, threshold)
    /\ pc' = "filtered"
    /\ UNCHANGED <<rawData, flat, filename, subject, sources, deltas, config, loading,
                   selectedSourceIds, viewMode, loadsStarted, loadsFinished, uploadCount,
                   dataSchema, uploads, expandedCategory>>

\* sortDeltas of what filterDeltasByThreshold returned
SortFiltered ==
    /\ pc = "filtered"
    /\ out' = sortDeltas(out, arg.sortMode)
    /\ pc' = "filterThenSort"
    /\ UNCHANGED <<rawData, flat, filename, subject, sources, deltas, arg, config, loading,
                   selectedSourceIds, viewMode, loadsStarted, loadsFinished, uploadCount,
                   dataSchema, uploads, expandedCategory>>

\* sortDeltas(deltas, sortMode), to be handed to filterDeltasByThreshold
SortFirst ==
    /\ pc = "input"
    /\ \E threshold \in Thresholds, sortMode \in DeltaSortModes :
         /\ arg' = [threshold |-> threshold, sortMode |-> sortMode]
         /\ out' = sortDeltas(deltas, sortMode)
    /\ pc' = "sorted"
    /\ UNCHANGED <<rawData, flat, filename, subject, sources, deltas, config, loading,
                   selectedSourceIds, viewMode, loadsStarted, loadsFinished, uploadCount,
                   dataSchema, uploads, expandedCategory>>

\* filterDeltasByThreshold of what sortDeltas returned
FilterSorted ==
    /\ pc = "sorted"
    /\ out' = filterDeltasByThreshold(out, arg.threshold)
    /\ pc' = "sortThenFilter"
    /\ UNCHANGED <<rawData, flat, filename, subject, sources, deltas, arg, config, loading,
                   selectedSourceIds, viewMode, loadsStarted, loadsFinished, uploadCount,
                   dataSchema, uploads, expandedCategory>>

NextDeltaPipeline == FilterFirst \/ SortFiltered \/ SortFirst \/ FilterSorted

SpecDeltaPipeline == InitDeltaTable /\ [][NextDeltaPipeline]_vars

\* The rows of s that reach the threshold t, in the order of s
RECURSIVE RowsReaching(_, _)
RowsReaching(s, t) ==
    IF s = <<>> THEN <<>>
    ELSE (IF Head(s).absDelta >= t THEN <<Head(s)>> ELSE <<>>) \o RowsReaching(Tail(s), t)

\* C29: filtering then sorting and sorting then filtering give the same
\* sequence of rows, the rows of the sorted list that reach the threshold, in
\* its order; the list handed in stays as it was.
C29_FilterAndSortCommute ==
    /\ [](/\ pc \in {"filterThenSort", "sortThenFilter"} =>
               out = RowsReaching(sortDeltas(deltas, arg.sortMode), arg.threshold)
          /\ pc = "filterThenSort" =>
               out = filterDeltasByThreshold(sortDeltas(deltas, arg.sortMode), arg.threshold)
          /\ pc = "sortThenFilter" =>
               out = sortDeltas(filterDeltasByThreshold(deltas, arg.threshold), arg.sortMode))
    /\ [][deltas' = deltas]_vars

\* Threshold 20 and mode category over a row of mmlu/b, a row under the
\* threshold and a row of mmlu/a: the filter drops the second, the sort puts
\* the third first
C29_Witness ==
    /\ pc = "filterThenSort"
    /\ arg = [threshold |-> 20, sortMode |-> "category"]
    /\ Len(deltas) = 3
    /\ deltas[1].category = "mmlu/b" /\ deltas[3].category = "mmlu/a"
    /\ deltas[2].absDelta = 15
    /\ out = <<deltas[3], deltas[1]>>

(***************************************************************************)
(* getTopBottomTests                                                       *)
(***************************************************************************)
\* Array.prototype.slice(start, end) for integers: a negative index counts
\* from the end, and both are clamped to the list
SliceIndex(n, k) == IF k < 0 THEN (IF n + k < 0 THEN 0 ELSE n + k) ELSE (IF k > n THEN n ELSE k)

Slice(s, start, end) ==
    SubSeq(s, SliceIndex(Len(s), start) + 1, SliceIndex(Len(s), end))

\* slice(start): to the end of the list
SliceFrom(s, start) == Slice(s, start, Len(s))

\* Array.prototype.reverse
ReverseOf(s) == [i \in 1..Len(s) |-> s[Len(s) + 1 - i]]

\* [...results].sort((a, b) => b.accuracy_mean - a.accuracy_mean), then
\* slice(0, topN) and slice(-bottomN).reverse(); -bottomN is 0 when bottomN is
HighestFirst(results) ==
    LET D == Range(results)
    IN  SortBy(results, { p \in D \X D : p[2].accuracy_mean - p[1].accuracy_mean < 0 })

getTopBottomTests(results, topN, bottomN) ==
    LET sorted == HighestFirst(results)
    IN  [top |-> Slice(sorted, 0, topN),
         bottom |-> ReverseOf(SliceFrom(sorted, 0 - bottomN))]

MaxTopBottomRecords == 3
MaxTopBottomN == 3

TopBottomRecords ==
    { [category |-> c, accuracy_mean |-> a] :
        c \in {"mmlu/a", "mmlu/b"}, a \in {40, 60} }
    \cup { [category |-> "mmlu/c", accuracy_mean |-> 80] }

InitTopBottom ==
    /\ pc = "input"
    /\ arg \in [results : SeqsUpTo(TopBottomRecords, MaxTopBottomRecords),
                topN : 0..MaxTopBottomN, bottomN : 0..MaxTopBottomN]
    /\ out = NoValue
    /\ rawData = NoValue /\ flat = NoValue /\ filename = "" /\ subject = ""
    /\ sources = <<>> /\ deltas = <<>>
    /\ config = NoValue /\ loading = FALSE /\ selectedSourceIds = <<>>
    /\ viewMode = "dashboard"
    /\ loadsStarted = 0 /\ loadsFinished = 0 /\ uploadCount = 0
    /\ dataSchema = {}
    /\ uploads = <<>>
    /\ expandedCategory = ""

GetTopBottomTests ==
    /\ pc = "input"
    /\ out' = getTopBottomTests(arg.results, arg.topN, arg.bottomN)
    /\ pc' = "getTopBottomTests"
    /\ UNCHANGED <<rawData, flat, filename, subject, sources, deltas, arg, config, loading,
                   selectedSourceIds, viewMode, loadsStarted, loadsFinished, uploadCount,
                   dataSchema, uploads, expandedCategory>>

NextTopBottom == GetTopBottomTests

SpecTopBottom == InitTopBottom /\ [][NextTopBottom]_vars

\* The number of times x occurs in s
Occurrences(s, x) == Cardinality({ i \in 1..Len(s) : s[i] = x })

\* part holds records of whole, none more often than whole does, and every
\* record left out of part is no better than each record in it (no worse,
\* when best is FALSE)
IsExtreme(part, whole, best) ==
    /\ \A x \in Range(part) : Occurrences(part, x) <= Occurrences(whole, x)
    /\ \A x \in Range(part), y \in Range(whole) :
          Occurrences(whole, y) > Occurrences(part, y) =>
              IF best THEN y.accuracy_mean <= x.accuracy_mean
              ELSE y.accuracy_mean >= x.accuracy_mean

\* C30: top holds the min(topN, n) records of highest accuracy_mean, highest
\* first, and bottom the min(bottomN, n) records of lowest accuracy_mean,
\* lowest first.
C30_TopAndBottomSizes ==
    pc = "getTopBottomTests" =>
      LET n == Len(arg.results)
      IN  /\ Len(out.top) = (IF arg.topN < n THEN arg.topN ELSE n)
          /\ Len(out.bottom) = (IF arg.bottomN < n THEN arg.bottomN ELSE n)
          /\ \A k \in 1..(Len(out.top) - 1) :
                out.top[k].accuracy_mean >= out.top[k + 1].accuracy_mean
          /\ \A k \in 1..(Len(out.bottom) - 1) :
                out.bottom[k].accuracy_mean <= out.bottom[k + 1].accuracy_mean
          /\ IsExtreme(out.top, arg.results, TRUE)
          /\ IsExtreme(out.bottom, arg.results, FALSE)

\* The same with bottomN at least 1
C30_TopAndBottomSizesPositiveBottomN ==
    arg.bottomN >= 1 => C30_TopAndBottomSizes

====
